---------------------------- MODULE Spec2Model ----------------------------
(***************************************************************************)
(* State-machine model of the RustArb arbitrage engine: the constant-      *)
(* product pricing of pair.rs, the graph and bounded search of graph.rs,   *)
(* the pending-swap revalidation and simulation of trade.rs, the scoring   *)
(* pass of txpool.rs and the main loop of main.rs.                         *)
(*                                                                         *)
(* Integer widths.  TLC's integers are 32-bit, so the two widths of the    *)
(* program are scaled: U256 is modelled with 31 bits and u128 with 17      *)
(* bits.  The scaling keeps what the code relies on: a u128 reserve times  *)
(* the fee base 10000 always fits the wide type, while amount * fee_ratio  *)
(* and amount * reserve can exceed it.  Every checked or saturating        *)
(* operation tests the limit by division before it multiplies or adds, so  *)
(* no value above U256Max is ever formed.                                  *)
(***************************************************************************)
EXTENDS Integers, Sequences, FiniteSets, TLC

VARIABLES
    \* ---- pricing harness (SpecMath) ----
    mpair,      \* the Pair the pricing functions are applied to
    mtoken,     \* the input token handed to the function
    mamount,    \* the amount handed to the function
    mout,       \* result of get_amount_out(mtoken, mamount)
    minp,       \* result of get_amount_in(mtoken, mamount)
    mround,     \* result of get_amount_in(mtoken, get_amount_out(mtoken, mamount))
    \* ---- registry (TxPool.protocols, TxPool.custom_pairs) ----
    protocols,      \* factory address -> [router, swap_fee, pairs: key -> Pair]
    custom_pairs,   \* sequence of Pair
    \* ---- search harness (SpecSearch) ----
    sorder,     \* the order in which the registry's pairs are enumerated
    samount,    \* the input amount of the search
    sres,       \* result of find_shortest_path
    seval,      \* result of get_amounts_out on the returned path
    sgraph,     \* graph harness (SpecGraph): result of create_graph
    \* ---- gas harness (SpecGas) ----
    ggas,       \* the Gas profile handed to estimate_gas
    gattempts,  \* TX_ATTEMPTS of the environment
    gcost,      \* result of estimate_gas
    \* ---- simulation harness (SpecSimulate) ----
    vtrade,     \* the pending swap
    vsim,       \* result of check_trade_validity and Trade::simulate on it
    \* ---- gas reserves (SpecReserves): ensure_gas_reserves of main.rs ----
    gr_pc,          \* position in ensure_gas_reserves
    main_balance,   \* native balance of the main account
    other_balances, \* native balance of each backup account
    low_accounts,   \* the backup accounts found below BALANCE_RESERVE
    top_up_amount,  \* amount: what is withdrawn, and what each pay sends
    payments,       \* per backup account: the outcome of its pay
    tx_fee,         \* the fee the main account pays for one transaction
    \* ---- engine (Spec): main loop of main.rs over the TxPool ----
    pc,                     \* position of the main loop
    trades,                 \* TxPool.trades: protocol address -> Trade
    now,                    \* the clock check_trade_validity reads (unix seconds)
    balance_to_spend,       \* balance of the arbitrage contract in the traded token
    todo,                   \* keys of trades the scoring loop has still to visit
    possible_arbitrages,    \* the vector simulate_trades is filling
    changed,                \* snapshots returned by the last Trade::simulate
    profitable_trade,       \* result of get_profitable_arbitrage
    pre_sim,                \* history: the registry just before the last simulate
    pre_pass,               \* history: the registry when the scoring pass began
    ingested,               \* history: hashes update_trades inserted and no block removed
    scored_hashes           \* history: hashes simulated since the last new block

mvars == <<mpair, mtoken, mamount, mout, minp, mround>>
rvars == <<protocols, custom_pairs>>
svars == <<sorder, samount, sres, seval, sgraph>>
wvars == <<gr_pc, main_balance, other_balances, low_accounts, top_up_amount, payments, tx_fee>>
hvars == <<ggas, gattempts, gcost, vtrade, vsim, wvars>>
evars == <<pc, trades, now, balance_to_spend, todo, possible_arbitrages, changed,
           profitable_trade, pre_sim, pre_pass, ingested, scored_hashes>>

vars == <<mpair, mtoken, mamount, mout, minp, mround,
          protocols, custom_pairs, sorder, samount, sres, seval, sgraph,
          ggas, gattempts, gcost, vtrade, vsim,
          gr_pc, main_balance, other_balances, low_accounts, top_up_amount, payments, tx_fee,
          pc, trades, now, balance_to_spend, todo, possible_arbitrages, changed,
          profitable_trade, pre_sim, pre_pass, ingested, scored_hashes>>

-----------------------------------------------------------------------------
(* Integer types *)

U256Max == 2147483647
U128Max == 131071

Ok(v) == [ok |-> TRUE, val |-> v, err |-> "none"]
Err(e) == [ok |-> FALSE, val |-> 0, err |-> e]
Unset == [ok |-> FALSE, val |-> 0, err |-> "unset"]

\* U256::checked_mul: None on overflow
checked_mul(a, b) ==
    IF a = 0 \/ b = 0 THEN Ok(0)
    ELSE IF b > U256Max \div a THEN Err("overflow")
    ELSE Ok(a * b)

\* U256::checked_add: None on overflow
checked_add(a, b) ==
    IF b > U256Max - a THEN Err("overflow") ELSE Ok(a + b)

\* U256::checked_div: None on a zero divisor
checked_div(a, b) ==
    IF b = 0 THEN Err("divzero") ELSE Ok(a \div b)

saturating_sub(a, b) == IF b > a THEN 0 ELSE a - b

saturating_add(a, b) == IF b > U256Max - a THEN U256Max ELSE a + b

saturating_mul(a, b) ==
    IF a = 0 \/ b = 0 THEN 0
    ELSE IF b > U256Max \div a THEN U256Max
    ELSE a * b

-----------------------------------------------------------------------------
(* pair.rs *)

FEE_BASE == 10000

\* Token addresses; TRADED_TOKEN is the reserve token, ZeroAddress the sentinel
ZeroAddress == 0
TRADED_TOKEN == 2
TokenA == TRADED_TOKEN + 1
TokenB == TRADED_TOKEN + 2
\* a token whose address sorts below the reserve token
TokenC == TRADED_TOKEN - 1

Pair(factory, t0, t1, r0, r1, fee) ==
    [factory_address |-> factory, token0 |-> t0, token1 |-> t1,
     reserve0 |-> r0, reserve1 |-> r1, fee |-> fee]

get_tokens(pair) == <<pair.token0, pair.token1>>

get_ordered_reserves(pair, input) ==
    IF input = pair.token0
    THEN [ok |-> TRUE, input |-> pair.reserve0, output |-> pair.reserve1]
    ELSE IF input = pair.token1
    THEN [ok |-> TRUE, input |-> pair.reserve1, output |-> pair.reserve0]
    ELSE [ok |-> FALSE, input |-> 0, output |-> 0]

\* get_amount_out reading only the low u128 half of the input amount
get_amount_out_low_u128(pair, input, amount_in) ==
    LET reserves == get_ordered_reserves(pair, input) IN
    IF ~reserves.ok THEN Err("TokenNotInPair")
    ELSE IF reserves.input = 0 \/ reserves.output = 0 THEN Err("NoLiquidity")
    ELSE IF pair.fee > FEE_BASE THEN Err("MathUnderflow")
    ELSE
      LET fee_ratio == FEE_BASE - pair.fee
          amount_in_with_fee == checked_mul(amount_in % (U128Max + 1), fee_ratio)
      IN
      IF ~amount_in_with_fee.ok THEN Err("MathOverflow")
      ELSE
        LET numerator == checked_mul(amount_in_with_fee.val, reserves.output) IN
        IF ~numerator.ok THEN Err("MathOverflow")
        ELSE
          LET denom_multi == checked_mul(reserves.input, FEE_BASE) IN
          IF ~denom_multi.ok THEN Err("MathOverflow")
          ELSE
            LET denominator == checked_add(amount_in_with_fee.val, denom_multi.val) IN
            IF ~denominator.ok THEN Err("MathUnderflow")
            ELSE
              LET output == checked_div(numerator.val, denominator.val) IN
              IF ~output.ok THEN Err("DivideByZero") ELSE Ok(output.val)

get_amount_out(pair, input, amount_in) ==
    LET reserves == get_ordered_reserves(pair, input) IN
    IF ~reserves.ok THEN Err("TokenNotInPair")
    ELSE IF reserves.input = 0 \/ reserves.output = 0 THEN Err("NoLiquidity")
    ELSE IF pair.fee > FEE_BASE THEN Err("MathUnderflow")
    ELSE
      LET fee_ratio == FEE_BASE - pair.fee
          amount_in_with_fee == checked_mul(amount_in, fee_ratio)
      IN
      IF ~amount_in_with_fee.ok THEN Err("MathOverflow")
      ELSE
        LET numerator == checked_mul(amount_in_with_fee.val, reserves.output) IN
        IF ~numerator.ok THEN Err("MathOverflow")
        ELSE
          LET denom_multi == checked_mul(reserves.input, FEE_BASE) IN
          IF ~denom_multi.ok THEN Err("MathOverflow")
          ELSE
            LET denominator == checked_add(amount_in_with_fee.val, denom_multi.val) IN
            IF ~denominator.ok THEN Err("MathUnderflow")
            ELSE
              LET output == checked_div(numerator.val, denominator.val) IN
              IF ~output.ok THEN Err("DivideByZero") ELSE Ok(output.val)

\* get_amount_in with the rounding increment doubled
get_amount_in_round2(pair, input, amount_out) ==
    LET reserves == get_ordered_reserves(pair, input) IN
    IF ~reserves.ok THEN Err("TokenNotInPair")
    ELSE IF reserves.input = 0 \/ reserves.output = 0 THEN Err("NoLiquidity")
    ELSE IF pair.fee > FEE_BASE THEN Err("MathUnderflow")
    ELSE
      LET fee_ratio == FEE_BASE - pair.fee
          num1 == checked_mul(reserves.input, amount_out)
      IN
      IF ~num1.ok THEN Err("MathOverflow")
      ELSE
        LET numerator == checked_mul(num1.val, FEE_BASE) IN
        IF ~numerator.ok THEN Err("MathOverflow")
        ELSE
          LET denom_sub == saturating_sub(reserves.output, amount_out)
              denominator == checked_mul(denom_sub, fee_ratio)
          IN
          IF ~denominator.ok THEN Err("MathOverflow")
          ELSE
            LET div == checked_div(numerator.val, denominator.val)
                division == IF div.ok THEN div.val ELSE U256Max
            IN Ok(saturating_add(division, 2))

get_amount_in(pair, input, amount_out) ==
    LET reserves == get_ordered_reserves(pair, input) IN
    IF ~reserves.ok THEN Err("TokenNotInPair")
    ELSE IF reserves.input = 0 \/ reserves.output = 0 THEN Err("NoLiquidity")
    ELSE IF pair.fee > FEE_BASE THEN Err("MathUnderflow")
    ELSE
      LET fee_ratio == FEE_BASE - pair.fee
          num1 == checked_mul(reserves.input, amount_out)
      IN
      IF ~num1.ok THEN Err("MathOverflow")
      ELSE
        LET numerator == checked_mul(num1.val, FEE_BASE) IN
        IF ~numerator.ok THEN Err("MathOverflow")
        ELSE
          LET denom_sub == saturating_sub(reserves.output, amount_out)
              denominator == checked_mul(denom_sub, fee_ratio)
          IN
          IF ~denominator.ok THEN Err("MathOverflow")
          ELSE
            LET div == checked_div(numerator.val, denominator.val)
                division == IF div.ok THEN div.val ELSE U256Max
            IN Ok(saturating_add(division, 1))

\* calculate_weight pricing the leg without the pair's fee
calculate_weight_nofee(pair, input, amount_in) ==
    LET r == get_amount_out([pair EXCEPT !.fee = 0], input, amount_in) IN
    IF r.ok THEN [panic |-> FALSE, weight |-> r.val]
    ELSE IF r.err = "NoLiquidity" THEN [panic |-> FALSE, weight |-> 0]
    ELSE [panic |-> TRUE, weight |-> 0]

\* calculate_weight that panics on every error of get_amount_out
calculate_weight_unwrap(pair, input, amount_in) ==
    LET r == get_amount_out(pair, input, amount_in) IN
    IF r.ok THEN [panic |-> FALSE, weight |-> r.val]
    ELSE [panic |-> TRUE, weight |-> 0]

\* calculate_weight: the amount out, 0 on NoLiquidity, a panic on any other error
calculate_weight(pair, input, amount_in) ==
    LET r == get_amount_out(pair, input, amount_in) IN
    IF r.ok THEN [panic |-> FALSE, weight |-> r.val]
    ELSE IF r.err = "NoLiquidity" THEN [panic |-> FALSE, weight |-> 0]
    ELSE [panic |-> TRUE, weight |-> 0]

-----------------------------------------------------------------------------
(* graph.rs *)

MAX_NUM_SWAPS == 4

Range(s) == {s[i] : i \in 1..Len(s)}
Last(s) == s[Len(s)]

PairLookup(factory, addresses) ==
    [factory_address |-> factory, pair_addresses |-> addresses]

\* SearchPath::new: no tokens, no pairs
SearchPath(weight) == [token_order |-> <<>>, pair_order |-> <<>>, weight |-> weight]

\* StableGraph::add_node / add_edge: indices are positions in insertion order
add_node(graph, weight) == [graph EXCEPT !.nodew = Append(@, weight)]
add_edge(graph, a, b, pair) ==
    [graph EXCEPT !.edges = Append(@, [source |-> a, target |-> b, pair |-> pair])]

\* add_pair whose start edge always leads to the node of token1
add_pair_start_to_token1(st, pair, start_token) ==
    LET token0 == pair.token0
        token1 == pair.token1
        st0 == IF token0 \in DOMAIN st.nodes THEN st
               ELSE [graph |-> add_node(st.graph, token0),
                     nodes |-> (token0 :> (Len(st.graph.nodew) + 1)) @@ st.nodes]
        node0 == st0.nodes[token0]
        st1 == IF token1 \in DOMAIN st0.nodes THEN st0
               ELSE [graph |-> add_node(st0.graph, token1),
                     nodes |-> (token1 :> (Len(st0.graph.nodew) + 1)) @@ st0.nodes]
        node1 == st1.nodes[token1]
        start_node == st1.nodes[ZeroAddress]
        g2 == IF token0 = start_token \/ token1 = start_token
              THEN add_edge(st1.graph, start_node, node1, pair)
              ELSE st1.graph
    IN [graph |-> add_edge(add_edge(g2, node0, node1, pair), node1, node0, pair),
        nodes |-> st1.nodes]

\* add_pair on the state [graph, nodes]; nodes maps an address to its node index
add_pair(st, pair, start_token) ==
    LET token0 == pair.token0
        token1 == pair.token1
        st0 == IF token0 \in DOMAIN st.nodes THEN st
               ELSE [graph |-> add_node(st.graph, token0),
                     nodes |-> (token0 :> (Len(st.graph.nodew) + 1)) @@ st.nodes]
        node0 == st0.nodes[token0]
        st1 == IF token1 \in DOMAIN st0.nodes THEN st0
               ELSE [graph |-> add_node(st0.graph, token1),
                     nodes |-> (token1 :> (Len(st0.graph.nodew) + 1)) @@ st0.nodes]
        node1 == st1.nodes[token1]
        start_node == st1.nodes[ZeroAddress]
        g2 == IF token0 = start_token THEN add_edge(st1.graph, start_node, node1, pair)
              ELSE IF token1 = start_token THEN add_edge(st1.graph, start_node, node0, pair)
              ELSE st1.graph
    IN [graph |-> add_edge(add_edge(g2, node0, node1, pair), node1, node0, pair),
        nodes |-> st1.nodes]

RECURSIVE add_pairs(_, _, _, _)
add_pairs(st, allpairs, i, traded_token) ==
    IF i > Len(allpairs) THEN st
    ELSE add_pairs(add_pair(st, allpairs[i], traded_token), allpairs, i + 1, traded_token)

\* create_graph: the start node carries the traded token and is filed under the
\* zero address; then every pair is added in the order given
create_graph(allpairs, traded_token) ==
    add_pairs([graph |-> [nodew |-> <<traded_token>>, edges |-> <<>>],
               nodes |-> (ZeroAddress :> 1)],
              allpairs, 1, traded_token)

\* Outgoing edge ids of a node, most recently added first (the adjacency list
\* of the graph library is threaded from the newest edge)
RECURSIVE out_edges(_, _, _)
out_edges(graph, node, i) ==
    IF i = 0 THEN <<>>
    ELSE IF graph.edges[i].source = node
         THEN <<i>> \o out_edges(graph, node, i - 1)
         ELSE out_edges(graph, node, i - 1)

\* get_successors: (edge id, target, weight) of every outgoing edge; the weight
\* of every edge is computed, so one failing calculate_weight aborts the search
get_successors(graph, node, cur_weight) ==
    LET node_token == graph.nodew[node]
        ids == out_edges(graph, node, Len(graph.edges))
        ws == [k \in 1..Len(ids) |->
                 calculate_weight(graph.edges[ids[k]].pair, node_token, cur_weight)]
    IN [panic |-> \E k \in 1..Len(ids) : ws[k].panic,
        list |-> [k \in 1..Len(ids) |->
                    [edge |-> ids[k], node |-> graph.edges[ids[k]].target,
                     weight |-> ws[k].weight]]]

\* The memo cut with a plain visited test: any earlier visit prunes
seen_prunes_visited(seen, key, cur_weight) == key \in DOMAIN seen

\* The memo cut of search_visit: prune when the entry is strictly greater
seen_prunes(seen, key, cur_weight) ==
    key \in DOMAIN seen /\ seen[key] > cur_weight

RECURSIVE search_visit(_, _, _, _)
RECURSIVE visit_successors(_, _, _, _, _, _)

\* search_visit without the test of the number of swaps
search_visit_nocut(graph, target_node, cur_path, st) ==
    IF st.panic THEN st
    ELSE
      LET cur_node == Last(cur_path.token_order)
          cur_weight == cur_path.weight
          key == <<cur_node, Len(cur_path.pair_order)>>
      IN
      IF cur_node = target_node
      THEN IF cur_weight > st.best.weight THEN [st EXCEPT !.best = cur_path] ELSE st
      ELSE IF seen_prunes(st.seen, key, cur_weight) THEN st
      ELSE
        LET st1 == [st EXCEPT !.seen = (key :> cur_weight) @@ @]
            succ == get_successors(graph, cur_node, cur_weight)
        IN IF succ.panic THEN [st1 EXCEPT !.panic = TRUE]
           ELSE visit_successors(graph, target_node, cur_path, succ.list, 1, st1)

\* search_visit on the state st = [seen, best, panic, deepest]; deepest is
\* history: the most edges of any path search_visit was called with
search_visit(graph, target_node, cur_path, st) ==
    IF st.panic THEN st
    ELSE IF Len(cur_path.pair_order) > MAX_NUM_SWAPS THEN st
    ELSE
      LET cur_node == Last(cur_path.token_order)
          cur_weight == cur_path.weight
          key == <<cur_node, Len(cur_path.pair_order)>>
      IN
      IF cur_node = target_node
      THEN IF cur_weight > st.best.weight THEN [st EXCEPT !.best = cur_path] ELSE st
      ELSE IF seen_prunes(st.seen, key, cur_weight) THEN st
      ELSE
        LET st1 == [st EXCEPT !.seen = (key :> cur_weight) @@ @]
            succ == get_successors(graph, cur_node, cur_weight)
        IN IF succ.panic THEN [st1 EXCEPT !.panic = TRUE]
           ELSE visit_successors(graph, target_node, cur_path, succ.list, 1, st1)

visit_successors(graph, target_node, cur_path, succ, i, st) ==
    IF i > Len(succ) \/ st.panic THEN st
    ELSE IF succ[i].edge \in Range(cur_path.pair_order)
    THEN visit_successors(graph, target_node, cur_path, succ, i + 1, st)
    ELSE
      LET next_path == [token_order |-> Append(cur_path.token_order, succ[i].node),
                        pair_order |-> Append(cur_path.pair_order, succ[i].edge),
                        weight |-> succ[i].weight]
      IN visit_successors(graph, target_node, cur_path, succ, i + 1,
                          search_visit(graph, target_node, next_path,
                                       [st EXCEPT !.deepest =
                                           IF Len(next_path.pair_order) > @
                                           THEN Len(next_path.pair_order) ELSE @]))

\* from_search_path reading the start node as the zero address it is filed under
from_search_path_zero_start(graph, searched) ==
    [token_order |-> [k \in 1..Len(searched.token_order) |->
                        IF searched.token_order[k] = 1 THEN ZeroAddress
                        ELSE graph.nodew[searched.token_order[k]]],
     pair_order |-> [k \in 1..Len(searched.pair_order) |->
                        LET pair == graph.edges[searched.pair_order[k]].pair
                        IN PairLookup(pair.factory_address, get_tokens(pair))]]

\* Path::from_search_path: node indices to addresses, edge ids to PairLookups
from_search_path(graph, searched) ==
    [token_order |-> [k \in 1..Len(searched.token_order) |->
                        graph.nodew[searched.token_order[k]]],
     pair_order |-> [k \in 1..Len(searched.pair_order) |->
                        LET pair == graph.edges[searched.pair_order[k]].pair
                        IN PairLookup(pair.factory_address, get_tokens(pair))]]

\* find_shortest_path: "err" when the target has no node, "panic" when a weight
\* computation aborts, else the Path of the best SearchPath (kept as best);
\* seen is the memo of the search when it ended
find_shortest_path(graph, nodes, target, amount_in) ==
    IF target \notin DOMAIN nodes
    THEN [status |-> "err", path |-> [token_order |-> <<>>, pair_order |-> <<>>],
          best |-> SearchPath(0), seen |-> <<>>, deepest |-> 0]
    ELSE
      LET goal == nodes[target]
          start_index == nodes[ZeroAddress]
          start_path == [token_order |-> <<start_index>>, pair_order |-> <<>>,
                         weight |-> amount_in]
          st == search_visit(graph, goal, start_path,
                             [seen |-> <<>>, best |-> SearchPath(0), panic |-> FALSE,
                              deepest |-> 0])
      IN IF st.panic
         THEN [status |-> "panic", path |-> [token_order |-> <<>>, pair_order |-> <<>>],
               best |-> SearchPath(0), seen |-> st.seen, deepest |-> st.deepest]
         ELSE [status |-> "ok", path |-> from_search_path(graph, st.best), best |-> st.best,
               seen |-> st.seen, deepest |-> st.deepest]

\* zip(token_order, pair_order): as many legs as the shorter of the two
Legs(path) == IF Len(path.token_order) < Len(path.pair_order)
              THEN Len(path.token_order) ELSE Len(path.pair_order)

\* Path::get_amounts_out: "panic" when the factory is no protocol, "err" when
\* the pair is missing or a leg fails, else the amounts along the path
RECURSIVE amounts_out_from(_, _, _, _, _)
amounts_out_from(path, protocols_, i, current_amount, amounts) ==
    IF i > Legs(path) THEN [status |-> "ok", amounts |-> amounts]
    ELSE
      LET pair_key == path.pair_order[i] IN
      IF pair_key.factory_address \notin DOMAIN protocols_
      THEN [status |-> "panic", amounts |-> amounts]
      ELSE IF pair_key.pair_addresses \notin DOMAIN protocols_[pair_key.factory_address].pairs
      THEN [status |-> "err", amounts |-> amounts]
      ELSE
        LET pair == protocols_[pair_key.factory_address].pairs[pair_key.pair_addresses]
            r == get_amount_out(pair, path.token_order[i], current_amount)
        IN IF ~r.ok THEN [status |-> "err", amounts |-> amounts]
           ELSE amounts_out_from(path, protocols_, i + 1, r.val, Append(amounts, r.val))

get_amounts_out(path, input, protocols_) ==
    amounts_out_from(path, protocols_, 1, input, <<input>>)

\* Path::get_amounts_in: the legs in reverse, each amount inserted at the front
RECURSIVE amounts_in_from(_, _, _, _, _)
amounts_in_from(path, protocols_, i, current_amount, amounts) ==
    IF i < 1 THEN [status |-> "ok", amounts |-> amounts]
    ELSE
      LET pair_key == path.pair_order[i] IN
      IF pair_key.factory_address \notin DOMAIN protocols_
      THEN [status |-> "panic", amounts |-> amounts]
      ELSE IF pair_key.pair_addresses \notin DOMAIN protocols_[pair_key.factory_address].pairs
      THEN [status |-> "err", amounts |-> amounts]
      ELSE
        LET pair == protocols_[pair_key.factory_address].pairs[pair_key.pair_addresses]
            r == get_amount_in(pair, path.token_order[i], current_amount)
        IN IF ~r.ok THEN [status |-> "err", amounts |-> amounts]
           ELSE amounts_in_from(path, protocols_, i - 1, r.val, <<r.val>> \o amounts)

get_amounts_in(path, output, protocols_) ==
    amounts_in_from(path, protocols_, Legs(path), output, <<output>>)

-----------------------------------------------------------------------------
(* v2protocol.rs: the registry; trade.rs: find_best_trade *)

\* Factory addresses of the two protocols of the model
Factory1 == ZeroAddress + 101
Factory2 == ZeroAddress + 102
Factories == {Factory1, Factory2}

\* swap_fee of each protocol; a Pair carries the fee of its protocol
SwapFee(f) == IF f = Factory1 THEN 30 ELSE 25

\* Protocol: pairs keyed by the ordered token tuple, as every caller looks them up
Protocol(f, pairs) == [factory |-> f, swap_fee |-> SwapFee(f), pairs |-> pairs]

TokenKeys == {<<TRADED_TOKEN, TokenA>>, <<TRADED_TOKEN, TokenB>>, <<TokenA, TokenB>>}

Perms(S) == {p \in [1..Cardinality(S) -> S] :
                \A i, j \in 1..Cardinality(S) : i # j => p[i] # p[j]}

PairIds(protocols_) ==
    {id \in [factory : DOMAIN protocols_, key : TokenKeys] :
        id.key \in DOMAIN protocols_[id.factory].pairs}

\* The orders in which get_all_pairs can enumerate the registry: the protocols
\* in any order, the pairs of one protocol together and in any order
AllPairOrders(protocols_) ==
    {p \in Perms(PairIds(protocols_)) :
        \A i, j, k \in 1..Len(p) :
            (i < j /\ j < k /\ p[i].factory = p[k].factory) => p[j].factory = p[i].factory}

get_all_pairs(protocols_, order) ==
    [i \in 1..Len(order) |-> protocols_[order[i].factory].pairs[order[i].key]]

\* the end of find_best_trade: the returned path evaluated on the registry;
\* every failure is an unwrap panic
evaluate_shortest(shortest, amount, protocols_) ==
    IF shortest.status # "ok"
    THEN [panic |-> TRUE, path |-> shortest.path, output |-> 0]
    ELSE LET outputs == get_amounts_out(shortest.path, amount, protocols_) IN
         IF outputs.status # "ok"
         THEN [panic |-> TRUE, path |-> shortest.path, output |-> 0]
         ELSE [panic |-> FALSE, path |-> shortest.path, output |-> Last(outputs.amounts)]

\* find_best_trade: graph over the protocol pairs and the custom pairs, search,
\* then evaluation of the returned path
find_best_trade(protocols_, amount, custom, order) ==
    LET st == create_graph(get_all_pairs(protocols_, order) \o custom, TRADED_TOKEN)
    IN evaluate_shortest(find_shortest_path(st.graph, st.nodes, TRADED_TOKEN, amount),
                         amount, protocols_)

-----------------------------------------------------------------------------
(* trade.rs: pending swaps, revalidation, simulation *)

\* Gas::Legacy(price) and Gas::London(max_fee, max_priority_fee)
Legacy(price) ==
    [kind |-> "Legacy", price |-> price, max_fee |-> 0, max_priority_fee |-> 0]
London(max_fee, max_priority_fee) ==
    [kind |-> "London", price |-> 0, max_fee |-> max_fee,
     max_priority_fee |-> max_priority_fee]

\* TradeParams::ExactInput(SwapExact) and TradeParams::ExactOutput(SwapForExact);
\* the fields of the other variant are kept at 0
SwapExact(amount_in, amount_out_min, path, deadline) ==
    [kind |-> "ExactInput", amount_in |-> amount_in, amount_out_min |-> amount_out_min,
     amount_out |-> 0, amount_in_max |-> 0, path |-> path, deadline |-> deadline]
SwapForExact(amount_out, amount_in_max, path, deadline) ==
    [kind |-> "ExactOutput", amount_in |-> 0, amount_out_min |-> 0,
     amount_out |-> amount_out, amount_in_max |-> amount_in_max,
     path |-> path, deadline |-> deadline]

\* array.sort_unstable() on the two addresses of a window
SortedPair(a, b) == IF a <= b THEN <<a, b>> ELSE <<b, a>>

\* from_trade_tokens that leaves out the last window
from_trade_tokens_short(tokens, protocol) ==
    [token_order |-> tokens,
     pair_order |-> [i \in 1..(Len(tokens) - 2) |->
                       PairLookup(protocol, SortedPair(tokens[i], tokens[i + 1]))]]

\* Path::from_trade_tokens: one PairLookup of the protocol per window of two tokens
from_trade_tokens(tokens, protocol) ==
    [token_order |-> tokens,
     pair_order |-> [i \in 1..(Len(tokens) - 1) |->
                       PairLookup(protocol, SortedPair(tokens[i], tokens[i + 1]))]]

\* Trade::new
Trade(tx_hash, params, gas, protocol) ==
    [tx_hash |-> tx_hash, params |-> params, gas |-> gas,
     path |-> from_trade_tokens(params.path, protocol),
     protocol |-> protocol, simulated |-> FALSE]

\* u128 += and -= : the wrapped result, and whether the exact result left the type
wrapping_add(a, b) == (a + b) % (U128Max + 1)
wrapping_sub(a, b) == (a - b + U128Max + 1) % (U128Max + 1)

\* The legs of Trade::simulate on st = [protocol, modified_pairs, panic, wrapped]:
\* each leg pushes a clone of the pair, then moves its reserves.  panic: an
\* amount does not fit u128, the amounts run out, or the pair is missing;
\* wrapped: an addition or subtraction left u128
RECURSIVE simulate_legs(_, _, _, _)
simulate_legs(path, amounts, i, st) ==
    IF i > Legs(path) \/ st.panic THEN st
    ELSE IF i + 1 > Len(amounts) THEN [st EXCEPT !.panic = TRUE]
    ELSE
      LET input_token == path.token_order[i]
          pair_key == path.pair_order[i]
          amount_in == amounts[i]
          amount_out == amounts[i + 1]
      IN
      IF amount_in > U128Max \/ amount_out > U128Max THEN [st EXCEPT !.panic = TRUE]
      ELSE IF pair_key.pair_addresses \notin DOMAIN st.protocol.pairs
      THEN [st EXCEPT !.panic = TRUE]
      ELSE
        LET pair == st.protocol.pairs[pair_key.pair_addresses]
            forward == input_token = get_tokens(pair)[1]
            moved == IF forward
                     THEN [pair EXCEPT !.reserve0 = wrapping_add(@, amount_in),
                                       !.reserve1 = wrapping_sub(@, amount_out)]
                     ELSE [pair EXCEPT !.reserve0 = wrapping_sub(@, amount_out),
                                       !.reserve1 = wrapping_add(@, amount_in)]
            left == IF forward
                    THEN pair.reserve0 + amount_in > U128Max \/ amount_out > pair.reserve1
                    ELSE amount_out > pair.reserve0 \/ pair.reserve1 + amount_in > U128Max
        IN simulate_legs(path, amounts, i + 1,
               [protocol |-> [st.protocol EXCEPT !.pairs[pair_key.pair_addresses] = moved],
                modified_pairs |-> Append(st.modified_pairs, pair),
                panic |-> FALSE,
                wrapped |-> st.wrapped \/ left])

\* Trade::simulate whose snapshot list holds the pairs as the simulation left them
simulate_snapshot_after(trade, protocol, amounts) ==
    LET r == simulate_legs(trade.path, amounts, 1,
                 [protocol |-> protocol, modified_pairs |-> <<>>,
                  panic |-> FALSE, wrapped |-> FALSE])
    IN [r EXCEPT !.modified_pairs =
            [k \in 1..Len(r.modified_pairs) |->
                r.protocol.pairs[get_tokens(r.modified_pairs[k])]]]

\* Trade::simulate
simulate(trade, protocol, amounts) ==
    simulate_legs(trade.path, amounts, 1,
        [protocol |-> protocol, modified_pairs |-> <<>>,
         panic |-> FALSE, wrapped |-> FALSE])

\* The restore simulate_trades calls on the protocol (unsimualte_trade); the
\* sources hold the call and no body, so this follows the specification
\* document: the snapshots are written back in reverse order, the last taken
\* first
RECURSIVE unsimulate_trade(_, _)
unsimulate_trade(protocol, snapshots) ==
    IF snapshots = <<>> THEN protocol
    ELSE LET pair == Last(snapshots) IN
         unsimulate_trade([protocol EXCEPT !.pairs[get_tokens(pair)] = pair],
                          SubSeq(snapshots, 1, Len(snapshots) - 1))

\* Trade::check_trade_validity at clock cur_unix: "err" when the deadline has
\* passed, the pricing of a leg fails or the bound is not strictly met
\* check_trade_validity that accepts a swap that meets its bound exactly
check_trade_validity_nonstrict(trade, protocols_, cur_unix) ==
    IF ~(trade.params.deadline >= cur_unix)
    THEN [status |-> "err", amounts |-> <<>>]
    ELSE IF trade.params.kind = "ExactInput"
    THEN LET amounts == get_amounts_out(trade.path, trade.params.amount_in, protocols_) IN
         IF amounts.status # "ok" THEN [status |-> amounts.status, amounts |-> <<>>]
         ELSE IF Last(amounts.amounts) >= trade.params.amount_out_min THEN amounts
         ELSE [status |-> "err", amounts |-> <<>>]
    ELSE LET amounts == get_amounts_in(trade.path, trade.params.amount_out, protocols_) IN
         IF amounts.status # "ok" THEN [status |-> amounts.status, amounts |-> <<>>]
         ELSE IF Head(amounts.amounts) <= trade.params.amount_in_max THEN amounts
         ELSE [status |-> "err", amounts |-> <<>>]

\* check_trade_validity without the deadline test
check_trade_validity_no_deadline(trade, protocols_, cur_unix) ==
    IF trade.params.kind = "ExactInput"
    THEN LET amounts == get_amounts_out(trade.path, trade.params.amount_in, protocols_) IN
         IF amounts.status # "ok" THEN [status |-> amounts.status, amounts |-> <<>>]
         ELSE IF Last(amounts.amounts) > trade.params.amount_out_min THEN amounts
         ELSE [status |-> "err", amounts |-> <<>>]
    ELSE LET amounts == get_amounts_in(trade.path, trade.params.amount_out, protocols_) IN
         IF amounts.status # "ok" THEN [status |-> amounts.status, amounts |-> <<>>]
         ELSE IF Head(amounts.amounts) < trade.params.amount_in_max THEN amounts
         ELSE [status |-> "err", amounts |-> <<>>]

check_trade_validity(trade, protocols_, cur_unix) ==
    IF ~(trade.params.deadline >= cur_unix)
    THEN [status |-> "err", amounts |-> <<>>]
    ELSE IF trade.params.kind = "ExactInput"
    THEN LET amounts == get_amounts_out(trade.path, trade.params.amount_in, protocols_) IN
         IF amounts.status # "ok" THEN [status |-> amounts.status, amounts |-> <<>>]
         ELSE IF Last(amounts.amounts) > trade.params.amount_out_min THEN amounts
         ELSE [status |-> "err", amounts |-> <<>>]
    ELSE LET amounts == get_amounts_in(trade.path, trade.params.amount_out, protocols_) IN
         IF amounts.status # "ok" THEN [status |-> amounts.status, amounts |-> <<>>]
         ELSE IF Head(amounts.amounts) < trade.params.amount_in_max THEN amounts
         ELSE [status |-> "err", amounts |-> <<>>]

-----------------------------------------------------------------------------
(* main.rs: gas estimate and the choice of the opportunity to execute *)

GAS_ESTIMATE == 500000
\* TX_ATTEMPTS of the environment
TRANSACTION_ATTEMPTS == 3

\* estimate_gas that takes max_priority_fee of a London profile
estimate_gas_priority(gas, attempts) ==
    LET gas_price == IF gas.kind = "Legacy" THEN gas.price ELSE gas.max_priority_fee
        gas_for_success == saturating_mul(GAS_ESTIMATE, gas_price)
        gas_for_fail == saturating_mul(GAS_ESTIMATE \div 8, gas_price)
    IN saturating_add(gas_for_success, saturating_mul(gas_for_fail, attempts - 1))

\* the body of estimate_gas, attempts being the value of *TRANSACTION_ATTEMPTS
estimate_gas_attempts(gas, attempts) ==
    LET gas_price == IF gas.kind = "Legacy" THEN gas.price ELSE gas.max_fee
        gas_for_success == saturating_mul(GAS_ESTIMATE, gas_price)
        gas_for_fail == saturating_mul(GAS_ESTIMATE \div 8, gas_price)
    IN saturating_add(gas_for_success, saturating_mul(gas_for_fail, attempts - 1))

estimate_gas(gas) == estimate_gas_attempts(gas, TRANSACTION_ATTEMPTS)

\* PossibleArbitrage::new
PossibleArbitrage(path, gas, output, input) ==
    [path |-> path, gas |-> gas, input |-> input, output |-> output,
     profit |-> saturating_sub(output, input), gas_in_eth |-> estimate_gas(gas)]

NoArbitrage ==
    [some |-> FALSE,
     arbitrage |-> PossibleArbitrage([token_order |-> <<>>, pair_order |-> <<>>],
                                     Legacy(0), 0, 0)]

\* the key of max_by_key
NetProfit(arbitrage) == saturating_sub(arbitrage.profit, arbitrage.gas_in_eth)

\* min_by_key: the least key, among equally minimal elements the first one
min_by_key(arbitrages) ==
    CHOOSE i \in 1..Len(arbitrages) :
        /\ \A j \in 1..Len(arbitrages) : NetProfit(arbitrages[i]) <= NetProfit(arbitrages[j])
        /\ \A j \in 1..(i - 1) : NetProfit(arbitrages[i]) < NetProfit(arbitrages[j])

\* max_by_key: among equally maximal elements the last one
max_by_key(arbitrages) ==
    CHOOSE i \in 1..Len(arbitrages) :
        /\ \A j \in 1..Len(arbitrages) : NetProfit(arbitrages[j]) <= NetProfit(arbitrages[i])
        /\ \A j \in (i + 1)..Len(arbitrages) :
              NetProfit(arbitrages[j]) < NetProfit(arbitrages[i])

\* the choice of get_profitable_arbitrage that also takes a zero net profit
get_profitable_arbitrage_nonstrict(arbitrages) ==
    IF arbitrages = <<>> THEN NoArbitrage
    ELSE LET arbitrage == arbitrages[max_by_key(arbitrages)] IN
         IF NetProfit(arbitrage) >= 0
         THEN [some |-> TRUE, arbitrage |-> arbitrage]
         ELSE NoArbitrage

\* get_profitable_arbitrage after get_arbitrages: the best by net profit, kept
\* only when its net profit is above zero
get_profitable_arbitrage(arbitrages) ==
    IF arbitrages = <<>> THEN NoArbitrage
    ELSE LET arbitrage == arbitrages[max_by_key(arbitrages)] IN
         IF NetProfit(arbitrage) > 0
         THEN [some |-> TRUE, arbitrage |-> arbitrage]
         ELSE NoArbitrage

-----------------------------------------------------------------------------
(* Values of the variables a specification does not use *)

NoSearch == [status |-> "unset", path |-> [token_order |-> <<>>, pair_order |-> <<>>],
             best |-> SearchPath(0), seen |-> <<>>, deepest |-> 0]
NoEval == [status |-> "unset", amounts |-> <<>>]
NoGraph == [graph |-> [nodew |-> <<>>, edges |-> <<>>], nodes |-> <<>>]

IdleMath ==
    /\ mpair = Pair(0, 0, 0, 0, 0, 0)
    /\ mtoken = 0
    /\ mamount = 0
    /\ mout = Unset
    /\ minp = Unset
    /\ mround = Unset

IdleRegistry ==
    /\ protocols = <<>>
    /\ custom_pairs = <<>>

IdleSearch ==
    /\ sorder = <<>>
    /\ samount = 0
    /\ sres = NoSearch
    /\ seval = NoEval
    /\ sgraph = NoGraph

NoSimulation == [status |-> "unset", amounts |-> <<>>, panic |-> FALSE, wrapped |-> FALSE]

IdleGas ==
    /\ ggas = Legacy(0)
    /\ gattempts = TRANSACTION_ATTEMPTS
    /\ gcost = Unset

IdleReserves ==
    /\ gr_pc = "idle"
    /\ main_balance = 0
    /\ other_balances = <<>>
    /\ low_accounts = {}
    /\ top_up_amount = 0
    /\ payments = <<>>
    /\ tx_fee = 0

IdleSimulate ==
    /\ vtrade = Trade(0, SwapExact(0, 0, <<>>, 0), Legacy(0), ZeroAddress)
    /\ vsim = NoSimulation

IdleEngine ==
    /\ pc = "idle"
    /\ trades = <<>>
    /\ now = 0
    /\ balance_to_spend = 0
    /\ todo = <<>>
    /\ possible_arbitrages = <<>>
    /\ changed = <<>>
    /\ profitable_trade = NoArbitrage
    /\ pre_sim = <<>>
    /\ pre_pass = <<>>
    /\ ingested = {}
    /\ scored_hashes = {}

-----------------------------------------------------------------------------
(* Pricing harness: the pricing functions applied to bounded inputs *)

MathReserves == {0, 1, 10, 1000, U128Max}
MathAmounts == {0, 1, 9, 10, 90, 100, 1000, U128Max + 1, 215000, U256Max}
MathFees == {0, 30, 9999, 10000, 10001}
MathTokens == {TRADED_TOKEN, TokenA, TokenB}

InitMath ==
    /\ IdleGas
    /\ IdleSimulate
    /\ IdleReserves
    /\ mpair \in {Pair(100, TRADED_TOKEN, TokenA, r0, r1, f) :
                    r0 \in MathReserves, r1 \in MathReserves, f \in MathFees}
    /\ mtoken \in MathTokens
    /\ mamount \in MathAmounts
    /\ mout = Unset
    /\ minp = Unset
    /\ mround = Unset
    /\ IdleRegistry
    /\ IdleSearch
    /\ IdleEngine

CalcAmountOut ==
    /\ mout = Unset
    /\ mout' = get_amount_out(mpair, mtoken, mamount)
    /\ UNCHANGED <<mpair, mtoken, mamount, minp, mround, rvars, svars, hvars, evars>>

CalcAmountIn ==
    /\ minp = Unset
    /\ minp' = get_amount_in(mpair, mtoken, mamount)
    /\ UNCHANGED <<mpair, mtoken, mamount, mout, mround, rvars, svars, hvars, evars>>

\* amount_in applied to the result of amount_out, when amount_out succeeded
CalcRoundTrip ==
    /\ mout.ok
    /\ mround = Unset
    /\ mround' = get_amount_in(mpair, mtoken, mout.val)
    /\ UNCHANGED <<mpair, mtoken, mamount, mout, minp, rvars, svars, hvars, evars>>

NextMath == CalcAmountOut \/ CalcAmountIn \/ CalcRoundTrip

SpecMath == InitMath /\ [][NextMath]_vars

-----------------------------------------------------------------------------
(* Search harness: find_shortest_path and get_amounts_out on bounded registries *)

MaxSearchPairs == 3

SearchIds == {[factory |-> Factory1, key |-> <<TRADED_TOKEN, TokenA>>],
              [factory |-> Factory2, key |-> <<TRADED_TOKEN, TokenA>>],
              [factory |-> Factory1, key |-> <<TokenA, TokenB>>],
              [factory |-> Factory1, key |-> <<TRADED_TOKEN, TokenB>>]}
SearchReserves == {<<0, 100>>, <<100, 100>>, <<100, 300>>, <<300, 100>>}
SearchAmounts == {0, 10, 100, 300000}

MkRegistry(S, res) ==
    [f \in Factories |->
        Protocol(f, [k \in {id.key : id \in {x \in S : x.factory = f}} |->
                        LET r == res[[factory |-> f, key |-> k]]
                        IN Pair(f, k[1], k[2], r[1], r[2], SwapFee(f))])]

SearchRegistries ==
    UNION {{MkRegistry(S, res) : res \in [S -> SearchReserves]} :
           S \in {T \in SUBSET SearchIds : Cardinality(T) <= MaxSearchPairs}}

\* The literal registries of the end-to-end scenarios.  SinglePool: one pool
\* R/A with reserves 1000/1000 and fee 30
SinglePool ==
    MkRegistry({[factory |-> Factory1, key |-> <<TRADED_TOKEN, TokenA>>]},
               [id \in {[factory |-> Factory1, key |-> <<TRADED_TOKEN, TokenA>>]} |->
                   <<1000, 1000>>])
\* ParallelPools: R/A, and A/B at both factories, so that a path can go
\* A -> B -> A -> B -> A over four distinct edges
ParallelPools ==
    MkRegistry({[factory |-> Factory1, key |-> <<TRADED_TOKEN, TokenA>>],
                [factory |-> Factory1, key |-> <<TokenA, TokenB>>],
                [factory |-> Factory2, key |-> <<TokenA, TokenB>>]},
               [id \in {[factory |-> Factory1, key |-> <<TRADED_TOKEN, TokenA>>],
                         [factory |-> Factory1, key |-> <<TokenA, TokenB>>],
                         [factory |-> Factory2, key |-> <<TokenA, TokenB>>]} |->
                   IF id.factory = Factory1 THEN <<100, 300>> ELSE <<300, 100>>])
ScenarioRegistries == {SinglePool, ParallelPools}

InitSearch ==
    /\ IdleGas
    /\ IdleSimulate
    /\ IdleReserves
    /\ protocols \in SearchRegistries \cup ScenarioRegistries
    /\ custom_pairs = <<>>
    /\ sorder \in AllPairOrders(protocols)
    /\ samount \in SearchAmounts
    /\ sres = NoSearch
    /\ seval = NoEval
    /\ sgraph = NoGraph
    /\ IdleMath
    /\ IdleEngine

SGraph == create_graph(get_all_pairs(protocols, sorder) \o custom_pairs, TRADED_TOKEN)

RunSearch ==
    /\ sres = NoSearch
    /\ sres' = find_shortest_path(SGraph.graph, SGraph.nodes, TRADED_TOKEN, samount)
    /\ UNCHANGED <<mvars, hvars, rvars, sorder, samount, seval, sgraph, evars>>

\* the evaluation find_best_trade makes of the returned path
EvaluatePath ==
    /\ sres.status = "ok"
    /\ seval = NoEval
    /\ seval' = get_amounts_out(sres.path, samount, protocols)
    /\ UNCHANGED <<mvars, hvars, rvars, sorder, samount, sres, sgraph, evars>>

\* the opportunity simulate_trades makes of the evaluated result, at no gas
\* cost, and the choice of get_profitable_arbitrage on it
ScoreEvaluated ==
    /\ seval.status = "ok"
    /\ possible_arbitrages = <<>>
    /\ possible_arbitrages' =
          <<PossibleArbitrage(sres.path, Legacy(0), Last(seval.amounts), samount)>>
    /\ profitable_trade' = get_profitable_arbitrage(possible_arbitrages')
    /\ UNCHANGED <<mvars, hvars, rvars, svars, pc, trades, now, balance_to_spend, todo,
                   changed, pre_sim, pre_pass, ingested, scored_hashes>>

NextSearch == RunSearch \/ EvaluatePath \/ ScoreEvaluated

SpecSearch == InitSearch /\ [][NextSearch]_vars

-----------------------------------------------------------------------------
(* Custom-pair harness: the search and its evaluation on a registry with a
   side list of custom pairs *)

\* the factory of a hand-configured pair that is no protocol of the registry
CustomFactory == ZeroAddress + 103

\* Custom pairs: of a factory outside the registry, or of a protocol of the
\* registry, whose pairs map may or may not hold a pair of the same tokens
CustomPairs ==
    {Pair(f, k[1], k[2], r[1], r[2], SwapFee(Factory1)) :
        f \in {CustomFactory, Factory1},
        k \in {<<TRADED_TOKEN, TokenA>>, <<TokenA, TokenB>>},
        r \in {<<100, 300>>, <<300, 100>>}}

CustomRegistries ==
    UNION {{MkRegistry(S, res) : res \in [S -> {<<100, 100>>, <<100, 300>>}]} :
           S \in {T \in SUBSET SearchIds : Cardinality(T) <= MaxSearchPairs - 1}}

InitCustom ==
    /\ IdleGas
    /\ IdleSimulate
    /\ IdleReserves
    /\ protocols \in CustomRegistries
    /\ custom_pairs \in {<<pair>> : pair \in CustomPairs}
    /\ sorder \in AllPairOrders(protocols)
    /\ samount \in {10, 100}
    /\ sres = NoSearch
    /\ seval = NoEval
    /\ sgraph = NoGraph
    /\ IdleMath
    /\ IdleEngine

SpecCustom == InitCustom /\ [][NextSearch]_vars

-----------------------------------------------------------------------------
(* Graph harness: create_graph on bounded lists of pairs *)

MaxGraphPairs == 3

GraphKeys == {<<TokenC, TRADED_TOKEN>>, <<TRADED_TOKEN, TokenA>>,
              <<TokenC, TokenA>>, <<TokenA, TokenB>>}
GraphPairs == {Pair(f, k[1], k[2], 1000, 1000, SwapFee(f)) :
                  f \in Factories, k \in GraphKeys}
GraphPairLists == UNION {[1..n -> GraphPairs] : n \in 0..MaxGraphPairs}

InitGraph ==
    /\ IdleGas
    /\ IdleSimulate
    /\ IdleReserves
    /\ protocols = <<>>
    /\ custom_pairs \in GraphPairLists
    /\ sorder = <<>>
    /\ samount = 0
    /\ sres = NoSearch
    /\ seval = NoEval
    /\ sgraph = NoGraph
    /\ IdleMath
    /\ IdleEngine

BuildGraph ==
    /\ sgraph = NoGraph
    /\ sgraph' = create_graph(custom_pairs, TRADED_TOKEN)
    /\ UNCHANGED <<mvars, hvars, rvars, sorder, samount, sres, seval, evars>>

NextGraph == BuildGraph

SpecGraph == InitGraph /\ [][NextGraph]_vars

-----------------------------------------------------------------------------
(* Gas harness: estimate_gas applied to bounded gas profiles and attempts *)

GasPrices == {0, 1, 2, 3000, 4294, 4295, 30000, U256Max}
GasProfiles ==
    {Legacy(p) : p \in GasPrices} \cup
    {London(m, t) : m \in GasPrices, t \in {0, 1, U256Max}}
TxAttempts == 1..8

InitGas ==
    /\ ggas \in GasProfiles
    /\ gattempts \in TxAttempts
    /\ gcost = Unset
    /\ IdleSimulate
    /\ IdleReserves
    /\ IdleMath
    /\ IdleRegistry
    /\ IdleSearch
    /\ IdleEngine

EstimateGas ==
    /\ gcost = Unset
    /\ gcost' = Ok(estimate_gas_attempts(ggas, gattempts))
    /\ UNCHANGED <<mvars, rvars, svars, ggas, gattempts, vtrade, vsim, wvars, evars>>

NextGas == EstimateGas

SpecGas == InitGas /\ [][NextGas]_vars

-----------------------------------------------------------------------------
(* Gas-reserves harness: ensure_gas_reserves on bounded account balances *)

MaxAccounts == 3

\* BALANCE_RESERVE of the environment
BALANCE_RESERVE == 10

ReserveBalances == {0, BALANCE_RESERVE - 1, BALANCE_RESERVE, 3 * BALANCE_RESERVE}
TxFees == {0, 1}

NoPayment == [status |-> "none", amount |-> 0]

InitReserves ==
    /\ IdleGas
    /\ IdleSimulate
    /\ gr_pc = "start"
    /\ main_balance \in ReserveBalances
    /\ other_balances \in UNION {[1..n -> ReserveBalances] : n \in 1..MaxAccounts}
    /\ low_accounts = {}
    /\ top_up_amount = 0
    /\ payments = [i \in 1..Len(other_balances) |-> NoPayment]
    /\ tx_fee \in TxFees
    /\ IdleRegistry
    /\ IdleSearch
    /\ IdleMath
    /\ IdleEngine

\* the balances read, low_accounts filtered, top_ups counted with the main
\* account, and amount = BALANCE_RESERVE * top_ups
CheckBalances ==
    /\ gr_pc = "start"
    /\ low_accounts' = {i \in DOMAIN other_balances : other_balances[i] < BALANCE_RESERVE}
    /\ \E top_ups \in {Cardinality(low_accounts') +
                         (IF main_balance < BALANCE_RESERVE THEN 1 ELSE 0)} :
          IF top_ups > 0
          THEN /\ top_up_amount' = saturating_mul(BALANCE_RESERVE, top_ups)
               /\ gr_pc' = "withdraw"
          ELSE /\ top_up_amount' = 0
               /\ gr_pc' = "done"
    /\ UNCHANGED <<mvars, rvars, svars, ggas, gattempts, gcost, vtrade, vsim, main_balance,
                   other_balances, payments, tx_fee, evars>>

\* withdraw_eth(amount) sent by the main account, receipt status 1
WithdrawEth ==
    /\ gr_pc = "withdraw"
    /\ main_balance >= tx_fee
    /\ main_balance' = saturating_add(main_balance - tx_fee, top_up_amount)
    /\ gr_pc' = "pay"
    /\ UNCHANGED <<mvars, rvars, svars, ggas, gattempts, gcost, vtrade, vsim, other_balances,
                   low_accounts, top_up_amount, payments, tx_fee, evars>>

\* the withdrawal is not sent, not mined or reverts: the error is unwrapped by
\* main, the status is asserted to be 1
WithdrawFails ==
    /\ gr_pc = "withdraw"
    /\ gr_pc' = "crashed"
    /\ UNCHANGED <<mvars, rvars, svars, ggas, gattempts, gcost, vtrade, vsim, main_balance,
                   other_balances, low_accounts, top_up_amount, payments, tx_fee, evars>>

\* pay(account, amount, main_account) of one low account; the futures run
\* together, so in any order; a pay the main account cannot cover fails and
\* its result is dropped by join_all
Pay ==
    /\ gr_pc = "pay"
    /\ \E account \in low_accounts :
          /\ payments[account].status = "none"
          /\ IF main_balance >= top_up_amount + tx_fee
             THEN /\ main_balance' = main_balance - top_up_amount - tx_fee
                  /\ other_balances' =
                        [other_balances EXCEPT ![account] = saturating_add(@, top_up_amount)]
                  /\ payments' = [payments EXCEPT
                                     ![account] = [status |-> "paid", amount |-> top_up_amount]]
             ELSE /\ payments' = [payments EXCEPT
                                     ![account] = [status |-> "failed", amount |-> 0]]
                  /\ UNCHANGED <<main_balance, other_balances>>
    /\ UNCHANGED <<mvars, rvars, svars, ggas, gattempts, gcost, vtrade, vsim, gr_pc,
                   low_accounts, top_up_amount, tx_fee, evars>>

\* join_all has returned: every pay has ended
PaymentsJoined ==
    /\ gr_pc = "pay"
    /\ \A account \in low_accounts : payments[account].status # "none"
    /\ gr_pc' = "done"
    /\ UNCHANGED <<mvars, rvars, svars, ggas, gattempts, gcost, vtrade, vsim, main_balance,
                   other_balances, low_accounts, top_up_amount, payments, tx_fee, evars>>

NextReserves == CheckBalances \/ WithdrawEth \/ WithdrawFails \/ Pay \/ PaymentsJoined

SpecReserves == InitReserves /\ [][NextReserves]_vars

-----------------------------------------------------------------------------
(* Simulation harness: check_trade_validity and Trade::simulate on bounded
   pending swaps against one protocol *)

SimIds == {[factory |-> Factory1, key |-> k] : k \in TokenKeys}
SimReserves == {<<10, 100>>, <<100, 10>>, <<1000, 1000>>, <<30000, 2>>}
SimRegistries == {MkRegistry(SimIds, res) : res \in [SimIds -> SimReserves]}
SimPaths == {<<TRADED_TOKEN, TokenA>>,
             <<TokenA, TRADED_TOKEN>>,
             <<TRADED_TOKEN, TokenA, TRADED_TOKEN>>,
             <<TRADED_TOKEN, TokenA, TokenB>>,
             <<TRADED_TOKEN, TokenA, TokenB, TRADED_TOKEN, TokenA>>}
SimSwaps ==
    {Trade(1, SwapExact(x, m, path, 0), Legacy(0), Factory1) :
        x \in {1, 100, 1000, 107000}, m \in {0, 50, 89, 90}, path \in SimPaths} \cup
    {Trade(1, SwapForExact(y, max, path, 0), Legacy(0), Factory1) :
        y \in {1, 50}, max \in {53, 54, U256Max}, path \in SimPaths}

InitSimulate ==
    /\ protocols \in SimRegistries
    /\ custom_pairs = <<>>
    /\ vtrade \in SimSwaps
    /\ vsim = NoSimulation
    /\ IdleGas
    /\ IdleReserves
    /\ IdleMath
    /\ IdleSearch
    /\ IdleEngine

\* simulate_trades, the revalidation of the swap
CheckTradeValidity ==
    /\ vsim.status = "unset"
    /\ \E checked_amounts \in {check_trade_validity(vtrade, protocols, now)} :
          vsim' = [vsim EXCEPT !.status = checked_amounts.status,
                               !.amounts = checked_amounts.amounts]
    /\ UNCHANGED <<mvars, rvars, svars, ggas, gattempts, gcost, vtrade, wvars, evars>>

\* simulate_trades, Trade::simulate on the protocol of a swap that passed
SimulateChecked ==
    /\ vsim.status = "ok"
    /\ \E r \in {simulate(vtrade, protocols[vtrade.protocol], vsim.amounts)} :
          /\ vsim' = [vsim EXCEPT !.status = "simulated",
                                  !.panic = r.panic, !.wrapped = r.wrapped]
          /\ protocols' = [protocols EXCEPT ![vtrade.protocol] = r.protocol]
          /\ changed' = r.modified_pairs
    /\ pre_sim' = protocols
    /\ UNCHANGED <<mvars, custom_pairs, svars, ggas, gattempts, gcost, vtrade, wvars, pc, trades,
                   now, balance_to_spend, todo, possible_arbitrages, profitable_trade,
                   pre_pass, ingested, scored_hashes>>

NextSimulate == CheckTradeValidity \/ SimulateChecked

SpecSimulate == InitSimulate /\ [][NextSimulate]_vars

-----------------------------------------------------------------------------
(* Engine: the main loop of main.rs over one TxPool *)

MaxTime == 1
MaxBatch == 2

\* The registry the engine runs on: one R/A pair in each protocol; a reserve
\* refresh reads one of these reserve assignments from the chain
EngineIds == {[factory |-> Factory1, key |-> <<TRADED_TOKEN, TokenA>>],
              [factory |-> Factory2, key |-> <<TRADED_TOKEN, TokenA>>]}
EngineReserves ==
    {[id \in EngineIds |-> <<1000, 1000>>],
     [id \in EngineIds |-> IF id.factory = Factory1 THEN <<1000, 1000>>
                           ELSE <<1100, 900>>]}
\* TwoPools: R/A (1000, 1000, fee 30) and, at the other factory, A/R
\* (1100, 900, fee 30), which the token order stores as R = 900, A = 1100
TwoPools ==
    [f \in Factories |->
        [factory |-> f, swap_fee |-> 30,
         pairs |-> [k \in {<<TRADED_TOKEN, TokenA>>} |->
                      IF f = Factory1
                      THEN Pair(f, TRADED_TOKEN, TokenA, 1000, 1000, 30)
                      ELSE Pair(f, TRADED_TOKEN, TokenA, 900, 1100, 30)]]]
EngineRegistries == {MkRegistry(EngineIds, res) : res \in EngineReserves} \cup {TwoPools}

\* what a refresh can read: new reserves, each protocol keeping its swap_fee
refreshed(protocols_) ==
    {r \in EngineRegistries : \A f \in DOMAIN r : r[f].swap_fee = protocols_[f].swap_fee}
EngineBalances == {100, 50, 15}

\* The decoded router swaps the watcher can deliver; the hash fixes the content
PendingSwaps ==
    {Trade(1, SwapExact(200, 0, <<TRADED_TOKEN, TokenA>>, MaxTime), Legacy(0), Factory1),
     Trade(2, SwapExact(100, 0, <<TRADED_TOKEN, TokenA, TRADED_TOKEN>>, 0),
           Legacy(0), Factory1),
     Trade(3, SwapForExact(100, 120, <<TokenA, TRADED_TOKEN>>, MaxTime),
           London(1, 0), Factory2)}
TxHashes == {t.tx_hash : t \in PendingSwaps}

\* The transactions to a known router the watcher can deliver: a router swap,
\* a call of a router function that is no swap, and calldata the router ABI
\* cannot decode (unknown selector, wrong arity or type, or fewer than 4
\* bytes, where the slice of the selector panics)
Transaction(calldata, trade) == [calldata |-> calldata, trade |-> trade]
NotASwap == Transaction("other_function", Trade(0, SwapExact(0, 0, <<>>, 0), Legacy(0), Factory1))
Undecodable == Transaction("undecodable", Trade(0, SwapExact(0, 0, <<>>, 0), Legacy(0), Factory2))
Transactions == {Transaction("swap", t) : t \in PendingSwaps} \cup {NotASwap, Undecodable}

\* decode_trade_params through decode_transactions: Err when the selector is
\* not in the ABI or the inputs do not match, Ok(None) for a function that is
\* not in the trade-type lookup, else the Trade
decode_trade_params(transaction) ==
    IF transaction.calldata = "undecodable" THEN [ok |-> FALSE, trades |-> <<>>]
    ELSE IF transaction.calldata = "other_function" THEN [ok |-> TRUE, trades |-> <<>>]
    ELSE [ok |-> TRUE, trades |-> <<transaction.trade>>]

\* decode_transactions and try_join_all: the first Err is the result
RECURSIVE decode_transactions(_)
decode_transactions(transactions) ==
    IF transactions = <<>> THEN [ok |-> TRUE, trades |-> <<>>]
    ELSE LET params == decode_trade_params(Head(transactions))
             later == decode_transactions(Tail(transactions))
         IN IF ~params.ok \/ ~later.ok THEN [ok |-> FALSE, trades |-> <<>>]
            ELSE [ok |-> TRUE, trades |-> params.trades \o later.trades]

\* The batches one update_trades can pull: distinct transactions in arrival order
Batches ==
    UNION {{b \in [1..n -> Transactions] : \A i, j \in 1..n : i # j => b[i] # b[j]} :
           n \in 0..MaxBatch}

Init ==
    /\ IdleGas
    /\ IdleSimulate
    /\ IdleReserves
    /\ protocols \in EngineRegistries
    /\ custom_pairs = <<>>
    /\ sorder \in AllPairOrders(protocols)
    /\ samount = 0
    /\ sres = NoSearch
    /\ seval = NoEval
    /\ sgraph = NoGraph
    /\ IdleMath
    /\ pc = "loop"
    /\ trades = <<>>
    /\ now = 0
    /\ balance_to_spend \in EngineBalances
    /\ todo = <<>>
    /\ possible_arbitrages = <<>>
    /\ changed = <<>>
    /\ profitable_trade = NoArbitrage
    /\ pre_sim = <<>>
    /\ pre_pass = <<>>
    /\ ingested = {}
    /\ scored_hashes = {}

\* what every branch at the top of the loop leaves behind of the last pass
LoopFrame ==
    /\ todo' = <<>>
    /\ possible_arbitrages' = <<>>
    /\ changed' = <<>>
    /\ profitable_trade' = NoArbitrage
    /\ pre_sim' = <<>>
    /\ pre_pass' = <<>>
    /\ UNCHANGED <<mvars, hvars, custom_pairs, samount, sres, seval, sgraph, now, balance_to_spend>>

\* The system clock moves on
ClockTick ==
    /\ pc # "crashed"
    /\ now < MaxTime
    /\ now' = now + 1
    /\ UNCHANGED <<mvars, hvars, rvars, svars, pc, trades, balance_to_spend, todo,
                   possible_arbitrages, changed, profitable_trade, pre_sim, pre_pass,
                   ingested, scored_hashes>>

\* More than an hour since the last rebuild: a new TxPool, its trades empty
HourlyRebuild ==
    /\ pc = "loop"
    /\ protocols' \in refreshed(protocols)
    /\ sorder' \in AllPairOrders(protocols')
    /\ trades' = <<>>
    /\ ingested' = {}
    /\ UNCHANGED scored_hashes
    /\ pc' = "update"
    /\ LoopFrame

\* remove_done_trades: a trade goes when its hash is in the block, the node no
\* longer knows it, or the node reports it mined; gone is the set of such hashes
remove_done_trades(trades_, gone) ==
    [f \in {g \in DOMAIN trades_ : trades_[g].tx_hash \notin gone} |-> trades_[f]]

mark_unsimulated(trades_) ==
    [f \in DOMAIN trades_ |-> [trades_[f] EXCEPT !.simulated = FALSE]]

\* NewBlock that can also interrupt a scoring pass after a simulate
NewBlockInBracket ==
    /\ pc \in {"loop", "score"}
    /\ protocols' \in refreshed(protocols)
    /\ sorder' \in AllPairOrders(protocols')
    /\ \E gone \in SUBSET TxHashes :
          /\ trades' = mark_unsimulated(remove_done_trades(trades, gone))
          /\ ingested' = ingested \ gone
    /\ scored_hashes' = {}
    /\ pc' = "update"
    /\ LoopFrame

\* A new block: reserves refreshed, done trades removed, every trade unsimulated
NewBlock ==
    /\ pc = "loop"
    /\ protocols' \in refreshed(protocols)
    /\ sorder' \in AllPairOrders(protocols')
    /\ \E gone \in SUBSET TxHashes :
          /\ trades' = mark_unsimulated(remove_done_trades(trades, gone))
          /\ ingested' = ingested \ gone
    /\ scored_hashes' = {}
    /\ pc' = "update"
    /\ LoopFrame

\* Either branch, the node fails during the refresh: get_all_reserves returns
\* Err and main unwraps it, which ends the program
RefreshFails ==
    /\ pc = "loop"
    /\ pc' = "crashed"
    /\ UNCHANGED <<mvars, hvars, rvars, svars, trades, now, balance_to_spend, todo,
                   possible_arbitrages, changed, profitable_trade, pre_sim, pre_pass,
                   ingested, scored_hashes>>

\* Neither branch: straight to get_profitable_arbitrage
NoBlock ==
    /\ pc = "loop"
    /\ pc' = "update"
    /\ UNCHANGED <<protocols, sorder, trades, ingested, scored_hashes>>
    /\ LoopFrame

\* the insertions of update_trades, in arrival order, keyed by trade.protocol
RECURSIVE insert_trades(_, _)
insert_trades(trades_, new_trades) ==
    IF new_trades = <<>> THEN trades_
    ELSE LET trade == Head(new_trades) IN
         insert_trades((trade.protocol :> trade) @@ trades_, Tail(new_trades))

\* get_arbitrages, first half: update_trades; then simulate_trades starts its
\* iteration over the map in one of the map's orders
UpdateTrades ==
    /\ pc = "update"
    /\ \E new_transactions \in Batches :
          \E decoded \in {decode_transactions(new_transactions)} :
             /\ decoded.ok
             /\ trades' = insert_trades(trades, decoded.trades)
             /\ ingested' = ingested \cup
                               {decoded.trades[i].tx_hash : i \in 1..Len(decoded.trades)}
    /\ todo' \in Perms(DOMAIN trades')
    /\ possible_arbitrages' = <<>>
    /\ changed' = <<>>
    /\ pre_pass' = protocols
    /\ pc' = "simulate"
    /\ UNCHANGED <<mvars, hvars, rvars, svars, now, balance_to_spend, profitable_trade,
                   pre_sim, scored_hashes>>

\* update_trades on a batch that does not decode: try_join_all returns the
\* Err, get_arbitrages passes it on and get_profitable_arbitrage unwraps it,
\* which ends the program
UpdateTradesFails ==
    /\ pc = "update"
    /\ \E new_transactions \in Batches : ~decode_transactions(new_transactions).ok
    /\ pc' = "crashed"
    /\ UNCHANGED <<mvars, hvars, rvars, svars, trades, now, balance_to_spend, todo,
                   possible_arbitrages, changed, profitable_trade, pre_sim, pre_pass,
                   ingested, scored_hashes>>

\* simulate_trades, a trade already simulated: continue
SkipSimulated ==
    /\ pc = "simulate"
    /\ todo # <<>>
    /\ trades[Head(todo)].simulated
    /\ todo' = Tail(todo)
    /\ UNCHANGED <<mvars, hvars, rvars, svars, pc, trades, now, balance_to_spend,
                   possible_arbitrages, changed, profitable_trade, pre_sim, pre_pass,
                   ingested, scored_hashes>>

\* SkipInvalid that marks the rejected trade simulated
SkipInvalidMarked ==
    /\ pc = "simulate"
    /\ todo # <<>>
    /\ ~trades[Head(todo)].simulated
    /\ check_trade_validity(trades[Head(todo)], protocols, now).status = "err"
    /\ trades' = [trades EXCEPT ![Head(todo)].simulated = TRUE]
    /\ todo' = Tail(todo)
    /\ UNCHANGED <<mvars, hvars, rvars, svars, pc, now, balance_to_spend,
                   possible_arbitrages, changed, profitable_trade, pre_sim, pre_pass,
                   ingested, scored_hashes>>

\* simulate_trades, check_trade_validity returned Err: continue
SkipInvalid ==
    /\ pc = "simulate"
    /\ todo # <<>>
    /\ ~trades[Head(todo)].simulated
    /\ check_trade_validity(trades[Head(todo)], protocols, now).status = "err"
    /\ todo' = Tail(todo)
    /\ UNCHANGED <<mvars, hvars, rvars, svars, pc, trades, now, balance_to_spend,
                   possible_arbitrages, changed, profitable_trade, pre_sim, pre_pass,
                   ingested, scored_hashes>>

\* SimulateTrade without the test of the simulated mark
SimulateTradeAgain ==
    /\ pc = "simulate"
    /\ todo # <<>>
    /\ LET address == Head(todo)
           trade == trades[address]
           checked_amounts == check_trade_validity(trade, protocols, now)
           r == IF address \in DOMAIN protocols
                THEN simulate(trade, protocols[address], checked_amounts.amounts)
                ELSE [protocol |-> <<>>, modified_pairs |-> <<>>,
                      panic |-> TRUE, wrapped |-> FALSE]
       IN /\ checked_amounts.status # "err"
          /\ IF checked_amounts.status = "panic" \/ r.panic
             THEN /\ pc' = "crashed"
                  /\ UNCHANGED <<protocols, changed, pre_sim, scored_hashes>>
             ELSE /\ pc' \in (IF r.wrapped THEN {"crashed", "score"} ELSE {"score"})
                  /\ protocols' = [protocols EXCEPT ![address] = r.protocol]
                  /\ changed' = r.modified_pairs
                  /\ pre_sim' = protocols
                  /\ scored_hashes' = scored_hashes \cup {trade.tx_hash}
    /\ UNCHANGED <<mvars, hvars, custom_pairs, svars, trades, now, balance_to_spend, todo,
                   possible_arbitrages, profitable_trade, pre_pass, ingested>>

\* simulate_trades, the trade is valid: Trade::simulate on its protocol.  A
\* panic ends the program; reserves that left u128 end it in a build that
\* checks overflow and are kept wrapped in one that does not
SimulateTrade ==
    /\ pc = "simulate"
    /\ todo # <<>>
    /\ ~trades[Head(todo)].simulated
    /\ LET address == Head(todo)
           trade == trades[address]
           checked_amounts == check_trade_validity(trade, protocols, now)
           r == IF address \in DOMAIN protocols
                THEN simulate(trade, protocols[address], checked_amounts.amounts)
                ELSE [protocol |-> <<>>, modified_pairs |-> <<>>,
                      panic |-> TRUE, wrapped |-> FALSE]
       IN /\ checked_amounts.status # "err"
          /\ IF checked_amounts.status = "panic" \/ r.panic
             THEN /\ pc' = "crashed"
                  /\ UNCHANGED <<protocols, changed, pre_sim, scored_hashes>>
             ELSE /\ pc' \in (IF r.wrapped THEN {"crashed", "score"} ELSE {"score"})
                  /\ protocols' = [protocols EXCEPT ![address] = r.protocol]
                  /\ changed' = r.modified_pairs
                  /\ pre_sim' = protocols
                  /\ scored_hashes' = scored_hashes \cup {trade.tx_hash}
    /\ UNCHANGED <<mvars, hvars, custom_pairs, svars, trades, now, balance_to_spend, todo,
                   possible_arbitrages, profitable_trade, pre_pass, ingested>>

\* the fan-out of simulate_trades: (input_amount / 10) * num for num in 1..=10
\* the fan-out that multiplies before it divides
FanOutTenths(input_amount) == [num \in 1..10 |-> (input_amount * num) \div 10]

\* amounts of simulate_trades: (input_amount / 10) * num for num in 1..=10
FanOut(input_amount) == [num \in 1..10 |-> (input_amount \div 10) * num]

\* the scoring loop of simulate_trades for one simulated trade: find_best_trade
\* for each amount of the fan-out, one PossibleArbitrage for each
score_amounts(protocols_, input_amount, custom, order, gas) ==
    LET best == [k \in 1..10 |->
                   find_best_trade(protocols_, FanOut(input_amount)[k], custom, order)]
    IN [panic |-> \E k \in 1..10 : best[k].panic,
        arbitrages |-> [k \in 1..10 |->
                          PossibleArbitrage(best[k].path, gas, best[k].output,
                                            FanOut(input_amount)[k])]]

\* simulate_trades, the scoring of the simulated trade; a panic of
\* find_best_trade ends the program
ScoreTrade ==
    /\ pc = "score"
    /\ \E scored \in {score_amounts(protocols, balance_to_spend, custom_pairs, sorder,
                                     trades[Head(todo)].gas)} :
          IF scored.panic
          THEN /\ pc' = "crashed"
               /\ UNCHANGED possible_arbitrages
          ELSE /\ pc' = "unsimulate"
               /\ possible_arbitrages' = possible_arbitrages \o scored.arbitrages
    /\ UNCHANGED <<mvars, hvars, rvars, svars, trades, now, balance_to_spend, todo, changed,
                   profitable_trade, pre_sim, pre_pass, ingested, scored_hashes>>

\* UnsimulateTrade that marks the trade simulated and leaves the reserves
UnsimulateTradeSkip ==
    /\ pc = "unsimulate"
    /\ trades' = [trades EXCEPT ![Head(todo)].simulated = TRUE]
    /\ todo' = Tail(todo)
    /\ pc' = "simulate"
    /\ UNCHANGED <<mvars, hvars, rvars, svars, now, balance_to_spend, possible_arbitrages,
                   changed, profitable_trade, pre_sim, pre_pass, ingested, scored_hashes>>

\* simulate_trades, the end of the bracket: the protocol restored from the
\* snapshots, the trade marked simulated
UnsimulateTrade ==
    /\ pc = "unsimulate"
    /\ protocols' = [protocols EXCEPT ![Head(todo)] = unsimulate_trade(@, changed)]
    /\ trades' = [trades EXCEPT ![Head(todo)].simulated = TRUE]
    /\ todo' = Tail(todo)
    /\ pc' = "simulate"
    /\ UNCHANGED <<mvars, hvars, custom_pairs, svars, now, balance_to_spend,
                   possible_arbitrages, changed, profitable_trade, pre_sim, pre_pass,
                   ingested, scored_hashes>>

\* get_profitable_arbitrage, once simulate_trades has returned: None continues
\* the loop, Some goes on to execute_trade
GetProfitableArbitrage ==
    /\ pc = "simulate"
    /\ todo = <<>>
    /\ profitable_trade' = get_profitable_arbitrage(possible_arbitrages)
    /\ pc' = IF profitable_trade'.some THEN "execute" ELSE "loop"
    /\ UNCHANGED <<mvars, hvars, rvars, svars, trades, now, balance_to_spend, todo,
                   possible_arbitrages, changed, pre_sim, pre_pass, ingested, scored_hashes>>

\* execute_trade, then the balance of the contract read again from the chain
ExecuteTrade ==
    /\ pc = "execute"
    /\ balance_to_spend' \in EngineBalances
    /\ pc' = "loop"
    /\ UNCHANGED <<mvars, hvars, rvars, svars, trades, now, todo, possible_arbitrages,
                   changed, profitable_trade, pre_sim, pre_pass, ingested, scored_hashes>>

Next ==
    \/ ClockTick
    \/ HourlyRebuild
    \/ NewBlock
    \/ RefreshFails
    \/ NoBlock
    \/ UpdateTrades
    \/ UpdateTradesFails
    \/ SkipSimulated
    \/ SkipInvalid
    \/ SimulateTrade
    \/ ScoreTrade
    \/ UnsimulateTrade
    \/ GetProfitableArbitrage
    \/ ExecuteTrade

Spec == Init /\ [][Next]_vars

-----------------------------------------------------------------------------
(* Properties of the pricing functions, checked under SpecMath *)

InPair == mtoken = mpair.token0 \/ mtoken = mpair.token1
Rin == get_ordered_reserves(mpair, mtoken).input
Rout == get_ordered_reserves(mpair, mtoken).output
ValidPool == InPair /\ Rin # 0 /\ Rout # 0

ProductFits(a, b) == a = 0 \/ b <= U256Max \div a

\* C8 as stated: for non-zero reserves, fee < 10000 and an input x for which
\* neither call overflows, amount_in(amount_out(x)) >= x.
C8_RoundTripAtLeastInput ==
    (ValidPool /\ mpair.fee < FEE_BASE /\ mout.ok /\ mround.ok)
        => mround.val >= mamount

\* C8 amended: under the same conditions amount_in(amount_out(x)) <= x + 1:
\* the quote is the least input that buys the floored output, plus the
\* rounding increment, so it can fall below x but never exceed x + 1.
C8_RoundTripAtMostInputPlusOne ==
    (ValidPool /\ mpair.fee < FEE_BASE /\ mout.ok /\ mround.ok)
        => mround.val - 1 <= mamount

C8_Witness ==
    /\ ValidPool /\ mpair.fee < FEE_BASE /\ mout.ok /\ mround.ok
    /\ mout.val > 0
    /\ mround.val < mamount

\* C9 as stated: get_amount_in returns the error NoLiquidity, and never a
\* numeric amount, whenever the requested output y >= Rout or either reserve
\* is zero (pools with a valid fee).
C9_AmountInNoLiquidity ==
    (minp # Unset /\ InPair /\ mpair.fee < FEE_BASE
        /\ (Rin = 0 \/ Rout = 0 \/ mamount >= Rout))
        => (~minp.ok /\ minp.err = "NoLiquidity")

\* The three products get_amount_out forms
AmountOutProductsFit ==
    /\ ProductFits(mamount, FEE_BASE - mpair.fee)
    /\ ProductFits(mamount * (FEE_BASE - mpair.fee), Rout)
    /\ ProductFits(Rin, FEE_BASE)

\* floor((x*(10000-fee)*Rout) / (Rin*10000 + x*(10000-fee))) when the products
\* fit; a denominator above the wide type's maximum exceeds the numerator, so
\* the quotient is then 0
AmountOutExact ==
    LET g == FEE_BASE - mpair.fee
        xg == mamount * g
        n == xg * Rout
        d1 == Rin * FEE_BASE
    IN IF d1 > U256Max - xg THEN 0 ELSE n \div (d1 + xg)

\* C10 as stated: for non-zero reserves, with fee <= 10000 and fitting products
\* get_amount_out returns exactly the floor of the formula; a product that does
\* not fit yields MathOverflow; fee > 10000 yields MathUnderflow.
C10_AmountOutFormula ==
    (mout # Unset /\ ValidPool) =>
        IF mpair.fee > FEE_BASE THEN mout = Err("MathUnderflow")
        ELSE IF AmountOutProductsFit THEN mout = Ok(AmountOutExact)
        ELSE mout = Err("MathOverflow")

\* C10 outside the one diverging case (products fit, the sum of the
\* denominator does not): there the code agrees with the claim
C10_AmountOutFormulaSumFits ==
    (mout # Unset /\ ValidPool) =>
        IF mpair.fee > FEE_BASE THEN mout = Err("MathUnderflow")
        ELSE IF AmountOutProductsFit
        THEN (Rin * FEE_BASE <= U256Max - mamount * (FEE_BASE - mpair.fee))
                => mout = Ok(AmountOutExact)
        ELSE mout = Err("MathOverflow")

\* The three products get_amount_in forms
AmountInProductsFit ==
    /\ ProductFits(Rin, mamount)
    /\ ProductFits(Rin * mamount, FEE_BASE)
    /\ ProductFits(Rout - mamount, FEE_BASE - mpair.fee)

\* C11: for non-zero reserves, fee < 10000 and 0 <= y < Rout with fitting
\* products, get_amount_in returns exactly
\* floor((Rin*y*10000) / ((Rout-y)*(10000-fee))) + 1; amount_in for y = 0 is 1
\* and amount_out for x = 0 is 0.
C11_AmountInFormula ==
    /\ (minp # Unset /\ ValidPool /\ mpair.fee < FEE_BASE /\ mamount < Rout
            /\ AmountInProductsFit)
          => /\ minp = Ok((Rin * mamount * FEE_BASE)
                            \div ((Rout - mamount) * (FEE_BASE - mpair.fee)) + 1)
             /\ mamount = 0 => minp = Ok(1)
    /\ (mout # Unset /\ ValidPool /\ mpair.fee < FEE_BASE /\ mamount = 0)
          => mout = Ok(0)

\* a quote above the rounding increment, for an output the pool can pay
C11_Witness ==
    /\ minp.ok /\ ValidPool /\ mpair.fee < FEE_BASE
    /\ 0 < mamount /\ mamount < Rout
    /\ AmountInProductsFit
    /\ minp.val > mamount + 1

\* the two zero cases together
C11_WitnessZero ==
    /\ ValidPool /\ mpair.fee < FEE_BASE /\ mamount = 0
    /\ minp = Ok(1) /\ mout = Ok(0)

\* C12: get_amount_out is monotone non-decreasing in the input amount: for
\* fixed non-zero reserves and fee, whenever amount_out(x2) is computed without
\* overflow, every x1 <= x2 gives amount_out(x1) <= amount_out(x2).
C12_AmountOutMonotone ==
    (mout.ok /\ ValidPool) =>
        \A x1 \in MathAmounts :
            x1 <= mamount =>
                /\ get_amount_out(mpair, mtoken, x1).ok
                /\ get_amount_out(mpair, mtoken, x1).val <= mout.val

\* a smaller input with a smaller, non-zero output
C12_Witness ==
    /\ mout.ok /\ ValidPool
    /\ \E x1 \in MathAmounts :
          /\ x1 < mamount
          /\ get_amount_out(mpair, mtoken, x1).ok
          /\ 0 < get_amount_out(mpair, mtoken, x1).val
          /\ get_amount_out(mpair, mtoken, x1).val < mout.val

-----------------------------------------------------------------------------
(* Properties of the search, checked under SpecSearch *)

MaxOf(S) == CHOOSE x \in S : \A y \in S : y <= x

\* Exhaustive oracle: the greatest final output over every edge-path that
\* extends a path standing at `node` with running amount `weight` and used
\* edges `used`, ends at the goal, repeats no edge and has at most
\* MAX_NUM_SWAPS edges in all; each leg priced by calculate_weight, a leg
\* whose pricing aborts closes its path.  0 when there is no such path.
RECURSIVE BestFrom(_, _, _, _, _)
BestFrom(graph, goal, node, used, weight) ==
    LET here == IF node = goal THEN weight ELSE 0
        nexts == IF Cardinality(used) >= MAX_NUM_SWAPS THEN {}
                 ELSE {i \in 1..Len(graph.edges) :
                         /\ graph.edges[i].source = node
                         /\ i \notin used
                         /\ ~calculate_weight(graph.edges[i].pair,
                                              graph.nodew[node], weight).panic}
    IN MaxOf({here} \cup
             {BestFrom(graph, goal, graph.edges[i].target, used \cup {i},
                       calculate_weight(graph.edges[i].pair,
                                        graph.nodew[node], weight).weight) :
                 i \in nexts})

SearchOracle ==
    BestFrom(SGraph.graph, SGraph.nodes[TRADED_TOKEN], SGraph.nodes[ZeroAddress], {}, samount)

NoRepeat(seq) == \A i, j \in 1..Len(seq) : i # j => seq[i] # seq[j]

\* C5: on a graph of at most 8 edges the weight of the path find_shortest_path
\* returns equals the exhaustive maximum over all edge-paths of at most 4
\* edges, without a repeated edge, from the start node to the reserve-token
\* node: the (node, depth) memo prunes no branch that leads to the maximum.
C5_SearchOptimal ==
    (sres.status = "ok" /\ Len(SGraph.graph.edges) <= 8)
        => sres.best.weight = SearchOracle

\* a three-edge cycle that beats every shorter route and returns more than it takes
C5_Witness ==
    /\ sres.status = "ok"
    /\ Len(SGraph.graph.edges) = 8
    /\ Len(sres.best.pair_order) = 3
    /\ sres.best.weight > samount
    /\ sres.best.weight = SearchOracle

\* C6 as stated: the returned Path has no repeated edge, at most MAX_SWAPS = 4
\* pairs, and its token sequence starts and ends at the reserve token, also
\* when no route has positive output.
C6_PathShape ==
    sres.status = "ok" =>
        /\ NoRepeat(sres.best.pair_order)
        /\ Len(sres.path.pair_order) <= MAX_NUM_SWAPS
        /\ Len(sres.path.token_order) > 0
        /\ sres.path.token_order[1] = TRADED_TOKEN
        /\ Last(sres.path.token_order) = TRADED_TOKEN

\* C6 amended: the returned Path has no repeated edge and at most 4 pairs; when
\* the search found a route its token sequence starts and ends at the reserve
\* token (one token more than pairs); when no route has positive output the
\* returned Path is empty: no tokens and no pairs.
C6_PathShapeOrEmpty ==
    sres.status = "ok" =>
        /\ NoRepeat(sres.best.pair_order)
        /\ Len(sres.path.pair_order) <= MAX_NUM_SWAPS
        /\ Len(sres.path.pair_order) = Len(sres.best.pair_order)
        /\ IF SearchOracle > 0
           THEN /\ Len(sres.path.token_order) = Len(sres.path.pair_order) + 1
                /\ sres.path.token_order[1] = TRADED_TOKEN
                /\ Last(sres.path.token_order) = TRADED_TOKEN
           ELSE sres.path = [token_order |-> <<>>, pair_order |-> <<>>]

C6_Witness ==
    /\ sres.status = "ok"
    /\ Len(sres.path.pair_order) = 3
    /\ NoRepeat(sres.best.pair_order)
    /\ sres.path.token_order[1] = TRADED_TOKEN
    /\ Last(sres.path.token_order) = TRADED_TOKEN

C6_WitnessNoRoute ==
    /\ sres.status = "ok"
    /\ Len(SGraph.graph.edges) > 0
    /\ samount > 0
    /\ sres.path = [token_order |-> <<>>, pair_order |-> <<>>]

C14_SinglePoolEmptyPath ==
    (protocols = SinglePool /\ samount = 100 /\ possible_arbitrages # <<>>) =>
        /\ Len(sres.path.pair_order) = 0
        /\ Last(seval.amounts) = samount
        /\ ~profitable_trade.some

\* C14 amended: with that pool and input 100 the search returns the two-hop
\* path R -> A -> R through the pool in both directions, of weight 82 (below
\* the input); the opportunity made of it has profit 0 and is not emitted.
C14_SinglePoolLosingLoop ==
    (protocols = SinglePool /\ samount = 100 /\ possible_arbitrages # <<>>) =>
        /\ sres.path.token_order = <<TRADED_TOKEN, TokenA, TRADED_TOKEN>>
        /\ sres.path.pair_order =
              <<PairLookup(Factory1, <<TRADED_TOKEN, TokenA>>),
                PairLookup(Factory1, <<TRADED_TOKEN, TokenA>>)>>
        /\ sres.best.weight = 82
        /\ Last(seval.amounts) = 82
        /\ possible_arbitrages[1].profit = 0
        /\ ~profitable_trade.some

C14_Witness ==
    /\ protocols = SinglePool
    /\ samount = 100
    /\ Len(possible_arbitrages) = 1
    /\ possible_arbitrages[1].output < possible_arbitrages[1].input
    /\ ~profitable_trade.some

\* C26 as stated: the no-edge-reuse test forbids routing both ways through
\* the same pair: the returned path names no pair in two legs.
C26_NoPairTwice ==
    sres.status = "ok" => NoRepeat(sres.path.pair_order)

\* C26 amended: the test forbids the reuse of a graph edge, and a pair has
\* one edge for each direction (and one more from the start node): the
\* returned path uses no edge twice and no pair twice in the same direction,
\* but it can go through one pair in both directions, for example start -> A
\* through pair P followed by A -> R through P.
C26_NoEdgeTwice ==
    sres.status = "ok" =>
        /\ NoRepeat(sres.best.pair_order)
        /\ \A i, j \in 1..Len(sres.path.pair_order) :
              (i < j /\ sres.path.pair_order[i] = sres.path.pair_order[j]) =>
                  /\ sres.path.token_order[i] = sres.path.token_order[j + 1]
                  /\ sres.path.token_order[i + 1] = sres.path.token_order[j]
                  /\ sres.path.token_order[i] # sres.path.token_order[i + 1]

\* the returned path leaves the reserve token and comes back through one pair
C26_Witness ==
    /\ sres.status = "ok"
    /\ sres.best.weight > 0
    /\ \E i, j \in 1..Len(sres.path.pair_order) :
          /\ i < j
          /\ sres.path.pair_order[i] = sres.path.pair_order[j]
          /\ sres.path.token_order[i] = TRADED_TOKEN
          /\ sres.path.token_order[j + 1] = TRADED_TOKEN

\* C32: search_visit ends on every finite graph, with cycles and parallel
\* edges: find_shortest_path has a result for every graph, no path the search
\* was called with holds more than MAX_SWAPS + 1 edges, no path it expanded
\* or kept holds more than MAX_SWAPS, whatever the number of edges of the graph.
C32_SearchDepthBounded ==
    /\ sres = NoSearch =>
          find_shortest_path(SGraph.graph, SGraph.nodes, TRADED_TOKEN, samount).status
              \in {"ok", "err", "panic"}
    /\ sres # NoSearch =>
          /\ sres.deepest <= MAX_NUM_SWAPS + 1
          /\ \A key \in DOMAIN sres.seen : key[2] <= MAX_NUM_SWAPS
          /\ Len(sres.best.pair_order) <= MAX_NUM_SWAPS

\* on a graph with parallel edges between A and B, of more than MAX_SWAPS + 1
\* edges, the search went round the cycle twice, was cut at the fifth edge,
\* and returned
C32_Witness ==
    /\ sres.status = "ok"
    /\ protocols = ParallelPools
    /\ Len(SGraph.graph.edges) > MAX_NUM_SWAPS + 1
    /\ sres.deepest = MAX_NUM_SWAPS + 1
    /\ \E key \in DOMAIN sres.seen : key[2] = MAX_NUM_SWAPS

\* the legs leaving the start node, priced at the input amount
StartLegs == out_edges(SGraph.graph, SGraph.nodes[ZeroAddress], Len(SGraph.graph.edges))

\* C30: calculate_weight of a leg is get_amount_out when that succeeds and 0
\* when it fails with NoLiquidity, which is a zero reserve on either side; on
\* any other error it aborts, and the search aborts exactly when one of the
\* nodes it expanded has such a leg; a leg of weight 0 is still recursed into:
\* the node it leads to is expanded like any other.
C30_WeightOrAbort ==
    sres # NoSearch /\ sres.status # "err" =>
        /\ \A k \in 1..Len(StartLegs) :
              LET pair == SGraph.graph.edges[StartLegs[k]].pair
                  r == get_amount_out(pair, TRADED_TOKEN, samount)
                  w == calculate_weight(pair, TRADED_TOKEN, samount)
              IN /\ r.ok => (~w.panic /\ w.weight = r.val)
                 /\ (pair.reserve0 = 0 \/ pair.reserve1 = 0) <=>
                        (~r.ok /\ r.err = "NoLiquidity")
                 /\ (~r.ok /\ r.err = "NoLiquidity") => (~w.panic /\ w.weight = 0)
                 /\ (~r.ok /\ r.err # "NoLiquidity") => (w.panic /\ sres.status = "panic")
        /\ sres.status = "panic" <=>
              \E key \in DOMAIN sres.seen :
                  get_successors(SGraph.graph, key[1], sres.seen[key]).panic
        /\ sres.status = "ok" =>
              \A k \in 1..Len(StartLegs) :
                  LET edge == SGraph.graph.edges[StartLegs[k]] IN
                  edge.target # SGraph.nodes[TRADED_TOKEN] =>
                      <<edge.target, 1>> \in DOMAIN sres.seen

\* a search that ended normally priced a leg of the start node at 0 for want
\* of liquidity and still expanded the node behind it
C30_Witness ==
    /\ sres.status = "ok"
    /\ samount > 0
    /\ \E k \in 1..Len(StartLegs) :
          LET edge == SGraph.graph.edges[StartLegs[k]] IN
          /\ edge.pair.reserve0 = 0
          /\ calculate_weight(edge.pair, TRADED_TOKEN, samount).weight = 0
          /\ edge.target # SGraph.nodes[TRADED_TOKEN]
          /\ sres.seen[<<edge.target, 1>>] = 0
          /\ \E j \in 1..Len(SGraph.graph.edges) : SGraph.graph.edges[j].source = edge.target

\* a search aborted by a leg whose amount out overflows
C30_WitnessAbort ==
    /\ sres.status = "panic"
    /\ \E key \in DOMAIN sres.seen :
          \E k \in 1..Len(SGraph.graph.edges) :
              /\ SGraph.graph.edges[k].source = key[1]
              /\ get_amount_out(SGraph.graph.edges[k].pair, SGraph.graph.nodew[key[1]],
                                sres.seen[key]).err = "MathOverflow"

\* a PairLookup resolves: its factory is a protocol of the registry and the
\* protocol holds a pair under its token tuple
Resolves(pair_key, protocols_) ==
    /\ pair_key.factory_address \in DOMAIN protocols_
    /\ pair_key.pair_addresses \in DOMAIN protocols_[pair_key.factory_address].pairs

UsesCustomPair(path) ==
    \E i \in 1..Len(path.pair_order) :
        path.pair_order[i] =
            PairLookup(custom_pairs[1].factory_address, get_tokens(custom_pairs[1]))

\* C29 as stated: every path the search returns over the protocol pairs and
\* the custom pairs can be evaluated by get_amounts_out on the registry: each
\* PairLookup of it resolves to a pair, also the lookup of a custom pair whose
\* factory is no protocol of the registry.
C29_CustomPathEvaluates ==
    /\ sres.status = "ok" =>
          \A i \in 1..Len(sres.path.pair_order) : Resolves(sres.path.pair_order[i], protocols)
    /\ seval # NoEval => seval.status = "ok"

\* the best path goes through a custom pair of a factory outside the registry
\* and its evaluation panics at "Protocol not found"
C29_ForeignFactoryPanics ==
    /\ sres.status = "ok"
    /\ UsesCustomPair(sres.path)
    /\ custom_pairs[1].factory_address = CustomFactory
    /\ seval.status = "panic"

\* the best path goes through a custom pair of a protocol that does not hold
\* it, and its evaluation fails with "Pair not found in protocol"
C29_UnlistedPairFails ==
    /\ sres.status = "ok"
    /\ UsesCustomPair(sres.path)
    /\ custom_pairs[1].factory_address = Factory1
    /\ seval.status = "err"

-----------------------------------------------------------------------------
(* Properties of the graph construction, checked under SpecGraph *)

StartNode == sgraph.nodes[ZeroAddress]
NodeOf(token) == sgraph.nodes[token]

\* the number of edges from a to b labelled with the pair
EdgeCount(a, b, pair) ==
    Cardinality({i \in 1..Len(sgraph.graph.edges) :
                    sgraph.graph.edges[i] = [source |-> a, target |-> b, pair |-> pair]})

Listed(pair) == Cardinality({i \in 1..Len(custom_pairs) : custom_pairs[i] = pair})

TouchesReserve(pair) == pair.token0 = TRADED_TOKEN \/ pair.token1 = TRADED_TOKEN

\* C13: after create_graph, every listed pair {a,b} has an edge a->b and an
\* edge b->a labelled with it between the nodes of its tokens, and when a or b
\* is the reserve token exactly one more edge, from the start node to the node
\* of the other token; there are no other edges.  (A pair listed n times has n
\* of each.)
C13_GraphEdges ==
    sgraph # NoGraph =>
        /\ sgraph.graph.nodew[StartNode] = TRADED_TOKEN
        /\ \A i \in 1..Len(custom_pairs) :
              LET pair == custom_pairs[i]
                  a == pair.token0
                  b == pair.token1
              IN /\ a \in DOMAIN sgraph.nodes /\ b \in DOMAIN sgraph.nodes
                 /\ sgraph.graph.nodew[NodeOf(a)] = a /\ NodeOf(a) # StartNode
                 /\ sgraph.graph.nodew[NodeOf(b)] = b /\ NodeOf(b) # StartNode
                 /\ EdgeCount(NodeOf(a), NodeOf(b), pair) = Listed(pair)
                 /\ EdgeCount(NodeOf(b), NodeOf(a), pair) = Listed(pair)
                 /\ EdgeCount(StartNode, NodeOf(b), pair)
                       = IF a = TRADED_TOKEN THEN Listed(pair) ELSE 0
                 /\ EdgeCount(StartNode, NodeOf(a), pair)
                       = IF b = TRADED_TOKEN THEN Listed(pair) ELSE 0
        /\ Len(sgraph.graph.edges)
              = 2 * Len(custom_pairs)
                + Cardinality({i \in 1..Len(custom_pairs) : TouchesReserve(custom_pairs[i])})

\* a graph of three different pairs: the reserve token as token0 of one, as
\* token1 of another, and in neither tokens of the third
C13_Witness ==
    /\ sgraph # NoGraph
    /\ Len(custom_pairs) = 3
    /\ \E i, j, k \in 1..3 :
          /\ custom_pairs[i].token0 = TRADED_TOKEN
          /\ custom_pairs[j].token1 = TRADED_TOKEN
          /\ ~TouchesReserve(custom_pairs[k])
    /\ Len(sgraph.graph.edges) = 8

-----------------------------------------------------------------------------
(* Properties of the engine, checked under Spec *)

SameReserves(p, q) ==
    /\ DOMAIN p = DOMAIN q
    /\ \A f \in DOMAIN p :
          /\ DOMAIN p[f].pairs = DOMAIN q[f].pairs
          /\ \A k \in DOMAIN p[f].pairs :
                /\ p[f].pairs[k].reserve0 = q[f].pairs[k].reserve0
                /\ p[f].pairs[k].reserve1 = q[f].pairs[k].reserve1

PendingHashes == {trades[f].tx_hash : f \in DOMAIN trades}

\* C1: for a pending swap that passed revalidation, Trade::simulate on its
\* protocol followed by unsimulate with the returned snapshots leaves reserve0
\* and reserve1 of every pair equal to their values before simulate, for every
\* bracket of a pass and also when the path crosses one pair twice.
C1_SimulateUnsimulateRestores ==
    (pc = "simulate" /\ changed # <<>>) => SameReserves(protocols, pre_sim)

\* a completed bracket whose snapshot list holds two different entries of one pair
C1_Witness ==
    /\ pc = "simulate"
    /\ Len(changed) = 2
    /\ get_tokens(changed[1]) = get_tokens(changed[2])
    /\ changed[1].reserve0 # changed[2].reserve0
    /\ SameReserves(protocols, pre_sim)

\* two brackets completed in one pass
C1_WitnessTwoBrackets ==
    /\ pc = "simulate"
    /\ Len(possible_arbitrages) = 20
    /\ SameReserves(protocols, pre_sim)

\* the registry of the start of the pass with the deltas of one swap applied
SwapApplied(registry, trade) ==
    [registry EXCEPT ![trade.protocol] =
        simulate(trade, @, check_trade_validity(trade, registry, 0).amounts).protocol]

\* C2: a scoring pass leaves every reserve of every pair of every protocol
\* equal to its value before the pass, whether a swap was scored or skipped,
\* and the opportunities of a swap are computed from the reserves of the start
\* of the pass changed by that swap only.
C2_ScoringPassPreservesReserves ==
    /\ pc = "simulate" => SameReserves(protocols, pre_pass)
    /\ pc \in {"score", "unsimulate"} =>
          protocols = SwapApplied(pre_pass, trades[Head(todo)])
    /\ pc = "unsimulate" =>
          SubSeq(possible_arbitrages, Len(possible_arbitrages) - 9,
                 Len(possible_arbitrages))
            = score_amounts(SwapApplied(pre_pass, trades[Head(todo)]), balance_to_spend,
                            custom_pairs, sorder, trades[Head(todo)].gas).arbitrages

\* a finished pass over two swaps, one scored with a paying opportunity and one
\* skipped
C2_Witness ==
    /\ pc = "simulate"
    /\ todo = <<>>
    /\ Cardinality(DOMAIN trades) = 2
    /\ Len(possible_arbitrages) = 10
    /\ \E f \in DOMAIN trades : ~trades[f].simulated
    /\ \E k \in 1..10 : possible_arbitrages[k].profit > 0
    /\ SameReserves(protocols, pre_pass)

\* C3: get_profitable_arbitrage returns, and the main loop executes, an
\* opportunity only if its profit is strictly greater than its gas cost.
C3_EmitsOnlyAboveGas ==
    /\ profitable_trade.some =>
          profitable_trade.arbitrage.profit > profitable_trade.arbitrage.gas_in_eth
    /\ pc = "execute" => profitable_trade.some

\* an opportunity is executed while another of the tick has a profit that
\* does not cover its gas
C3_Witness ==
    /\ pc = "execute"
    /\ profitable_trade.arbitrage.profit > profitable_trade.arbitrage.gas_in_eth
    /\ \E k \in 1..Len(possible_arbitrages) :
          /\ possible_arbitrages[k].profit > 0
          /\ possible_arbitrages[k].profit <= possible_arbitrages[k].gas_in_eth

\* C4 as stated: pending swaps are keyed by tx_hash, so every swap that
\* update_trades ingested and no block removed is present in pending, also
\* when two of them target the same protocol.
C4_BothSwapsPending ==
    \A h \in ingested : h \in PendingHashes

\* the scoring pass of a tick is over: get_profitable_arbitrage has chosen
TickEnded == pc \in {"loop", "execute"} /\ pre_pass # <<>>

TwoHopCycle(arbitrage) ==
    /\ arbitrage.path.token_order = <<TRADED_TOKEN, TokenA, TRADED_TOKEN>>
    /\ arbitrage.path.pair_order =
          <<PairLookup(Factory2, <<TRADED_TOKEN, TokenA>>),
            PairLookup(Factory1, <<TRADED_TOKEN, TokenA>>)>>

C27_EmitsMaxNetProfit ==
    /\ (TickEnded /\ profitable_trade.some) =>
          /\ \E k \in 1..Len(possible_arbitrages) :
                possible_arbitrages[k] = profitable_trade.arbitrage
          /\ \A k \in 1..Len(possible_arbitrages) :
                NetProfit(possible_arbitrages[k]) <= NetProfit(profitable_trade.arbitrage)
    /\ pc = "execute" => TickEnded /\ profitable_trade.some

\* an opportunity is executed while the tick scored another one with a smaller
\* net profit above zero and one with a greater profit before gas
C27_Witness ==
    /\ pc = "execute"
    /\ \E k \in 1..Len(possible_arbitrages) :
          /\ NetProfit(possible_arbitrages[k]) > 0
          /\ NetProfit(possible_arbitrages[k]) < NetProfit(profitable_trade.arbitrage)
    /\ Len(possible_arbitrages) > 10

\* the two invariants of a Path: one lookup less than tokens, and the pair of
\* each lookup holds the tokens on both sides of its leg
PathLinked(path) ==
    \A i \in 1..Len(path.pair_order) :
        /\ i + 1 <= Len(path.token_order)
        /\ path.token_order[i] \in Range(path.pair_order[i].pair_addresses)
        /\ path.token_order[i + 1] \in Range(path.pair_order[i].pair_addresses)

PathInvariant(path) ==
    /\ Len(path.pair_order) = Len(path.token_order) - 1
    /\ PathLinked(path)

EmptyPath == [token_order |-> <<>>, pair_order |-> <<>>]

\* C28 as stated: every Path the program holds, the path of a pending swap
\* (from_trade_tokens) and the path of a scored opportunity (from_search_path,
\* the no-route result included), has one lookup less than tokens and each
\* lookup's pair contains the two tokens of its leg.
C28_EveryPathInvariant ==
    /\ \A f \in DOMAIN trades : PathInvariant(trades[f].path)
    /\ \A k \in 1..Len(possible_arbitrages) : PathInvariant(possible_arbitrages[k].path)

\* C28 amended: the path of every pending swap satisfies both invariants; the
\* path of a scored opportunity satisfies them when the search found a route,
\* and is the empty Path, no tokens and no lookups, when it found none.
C28_PathInvariantOrEmpty ==
    /\ \A f \in DOMAIN trades : PathInvariant(trades[f].path)
    /\ \A k \in 1..Len(possible_arbitrages) :
          \/ PathInvariant(possible_arbitrages[k].path)
          \/ possible_arbitrages[k].path = EmptyPath

\* a pass holds a swap of two legs, a scored route of two legs and a scored
\* no-route result
C28_Witness ==
    /\ \E f \in DOMAIN trades : Len(trades[f].path.pair_order) = 2
    /\ \E k \in 1..Len(possible_arbitrages) :
          Len(possible_arbitrages[k].path.pair_order) = 2
    /\ \E k \in 1..Len(possible_arbitrages) : possible_arbitrages[k].path = EmptyPath

\* C31: for a pending swap that passed revalidation the scoring pass adds
\* exactly 10 opportunities, the k-th with input k * (balance / 10) in integer
\* division, the gas profile of the swap, the path the search returns for that
\* input on the simulated registry and the output of that path; no input is
\* above the balance.
C31_TenOpportunitiesPerSwap ==
    [][(ScoreTrade /\ pc' = "unsimulate") =>
          /\ Len(possible_arbitrages') = Len(possible_arbitrages) + 10
          /\ \A k \in 1..Len(possible_arbitrages) :
                possible_arbitrages'[k] = possible_arbitrages[k]
          /\ \A k \in 1..10 :
                \E scored \in {possible_arbitrages'[Len(possible_arbitrages) + k]} :
                \E graph \in {create_graph(get_all_pairs(protocols, sorder) \o custom_pairs,
                                            TRADED_TOKEN)} :
                   /\ scored.input = k * (balance_to_spend \div 10)
                   /\ scored.input <= balance_to_spend
                   /\ scored.gas = trades[Head(todo)].gas
                   /\ scored.path =
                         find_shortest_path(graph.graph, graph.nodes, TRADED_TOKEN,
                                            scored.input).path
                   /\ scored.output =
                         Last(get_amounts_out(scored.path, scored.input, protocols).amounts)
                   /\ scored.profit = saturating_sub(scored.output, scored.input)]_vars

\* a pass has scored two swaps with different gas profiles on a balance that
\* is no multiple of 10: 20 opportunities, the last one below the balance
C31_Witness ==
    /\ Len(possible_arbitrages) = 20
    /\ balance_to_spend % 10 # 0
    /\ possible_arbitrages[10].input < balance_to_spend
    /\ possible_arbitrages[10].input = 10 * (balance_to_spend \div 10)
    /\ possible_arbitrages[1].gas # possible_arbitrages[11].gas
    /\ possible_arbitrages[10].output > possible_arbitrages[10].input

ExpiredHead ==
    /\ pc = "simulate"
    /\ todo # <<>>
    /\ ~trades[Head(todo)].simulated
    /\ trades[Head(todo)].params.deadline < now

\* C16: a pending swap whose deadline is earlier than now is skipped: the step
\* of simulate_trades on it changes no reserve, starts no scoring, adds no
\* opportunity and leaves it unsimulated, and the pass goes on with the
\* trades that remain.
C16_ExpiredSwapSkipped ==
    [][ExpiredHead =>
          /\ pc' = "simulate"
          /\ todo' \in {todo, Tail(todo)}
          /\ UNCHANGED <<protocols, possible_arbitrages, changed, trades>>]_vars

\* a pass is over in which an expired swap was skipped and another was scored
C16_Witness ==
    /\ pc = "simulate"
    /\ todo = <<>>
    /\ \E f \in DOMAIN trades :
          /\ trades[f].params.deadline < now
          /\ ~trades[f].simulated
    /\ \E f \in DOMAIN trades : trades[f].simulated
    /\ Len(possible_arbitrages) = 10
    /\ protocols = pre_pass

\* C18 as stated: a failure of the node during the reserve refresh aborts the
\* tick only: from the top of the loop the engine goes on with the tick or is
\* back at the top of the loop, the registry and the pending trades as they
\* were; the loop never ends there.
C18_RefreshFailureAbortsTick ==
    [][pc = "loop" =>
          \/ pc' = "update"
          \/ pc' = "loop" /\ UNCHANGED <<protocols, trades>>]_vars

\* the program ended at the refresh: no later tick refreshes again
C18_RefreshEndedLoop ==
    /\ pc = "crashed"
    /\ todo = <<>>
    /\ ~ENABLED Next

\* C19: within a tick each pending swap is bracketed.  A swap is simulated
\* only on the registry as the pass found it, so the swap before it has been
\* unsimulated; from simulate to unsimulate no step changes a reserve, the
\* trades or the swap at hand, so the scoring sees the reserves of the start
\* of the pass changed by this swap only; the step that ends the bracket
\* restores those reserves and moves on to the next swap.
C19_SwapsBracketed ==
    [][/\ (pc = "simulate" /\ pc' = "score") =>
             /\ protocols = pre_pass
             /\ protocols' = SwapApplied(pre_pass, trades[Head(todo)])
             /\ todo' = todo
       /\ pc \in {"score", "unsimulate"} =>
             \/ /\ UNCHANGED <<protocols, trades, todo, pre_pass>>
                /\ pc' \in {pc, "unsimulate", "crashed"}
             \/ /\ pc = "unsimulate"
                /\ pc' = "simulate"
                /\ SameReserves(protocols', pre_pass)
                /\ todo' = Tail(todo)]_vars

\* the second swap of a pass is being scored, the first one unsimulated
C19_Witness ==
    /\ pc = "score"
    /\ Len(possible_arbitrages) = 10
    /\ \E f \in DOMAIN trades : trades[f].simulated /\ f # Head(todo)
    /\ protocols # pre_pass
    /\ protocols = SwapApplied(pre_pass, trades[Head(todo)])

\* C21 as stated: between two new blocks a pending swap, identified by its
\* tx_hash, is simulated and scored at most once.
C21_HashSimulatedOncePerBlock ==
    [][(pc = "simulate" /\ pc' = "score") =>
          trades[Head(todo)].tx_hash \notin scored_hashes]_vars

\* C21 amended: between two new blocks an entry of the pending map is
\* simulated at most once.  Only an entry not marked simulated is simulated; an
\* entry marked simulated is passed over without a change of reserves or
\* opportunities, and keeps its mark until the top of the loop (a new block
\* resets every mark, the hourly rebuild empties the map) or until
\* update_trades replaces the entry, which a second delivery of the same
\* tx_hash also does.
C21_EntrySimulatedOncePerBlock ==
    [][/\ (pc = "simulate" /\ pc' = "score") => ~trades[Head(todo)].simulated
       /\ (pc = "simulate" /\ todo # <<>> /\ trades[Head(todo)].simulated) =>
             /\ pc' = "simulate"
             /\ todo' \in {todo, Tail(todo)}
             /\ UNCHANGED <<protocols, possible_arbitrages, trades, scored_hashes>>
       /\ \A f \in DOMAIN trades :
             (trades[f].simulated /\ pc \notin {"loop", "update"}) =>
                 f \in DOMAIN trades' /\ trades'[f] = trades[f]
       /\ (pc = "update" /\ pc' = "simulate") =>
             \A f \in DOMAIN trades :
                 /\ f \in DOMAIN trades'
                 /\ trades'[f] = trades[f] \/ ~trades'[f].simulated
       /\ (pc = "loop" /\ pc' = "update") =>
             \/ trades' = trades
             \/ \A f \in DOMAIN trades' : ~trades'[f].simulated]_vars

\* a pass has gone over an entry simulated in an earlier pass and scored nothing
C21_Witness ==
    /\ pc = "simulate"
    /\ todo = <<>>
    /\ possible_arbitrages = <<>>
    /\ \E f \in DOMAIN trades : trades[f].simulated /\ trades[f].tx_hash \in scored_hashes

\* a swap simulated since the last block, delivered again, is scored again
C21_WitnessRedelivered ==
    /\ pc = "score"
    /\ Cardinality(scored_hashes) = 1
    /\ trades[Head(todo)].tx_hash \in scored_hashes
    /\ Len(possible_arbitrages) = 0
    /\ Len(todo) = 1

\* C22 as stated: a pending swap leaves the pending set only in the step of a
\* new block, by remove_done_trades; no other step of the loop removes one.
C22_RemovedOnlyByBlock ==
    [][(\E h \in PendingHashes : h \notin {trades'[f].tx_hash : f \in DOMAIN trades'}) =>
          NewBlock]_vars

\* update_trades has put a swap in the place of another one of the same
\* protocol, which no block has removed
C22_ReplacedByIngest ==
    /\ pc = "simulate"
    /\ \E h \in ingested : h \notin PendingHashes

\* C23 as stated: a transaction to a known router that cannot be decoded is
\* dropped without aborting the tick: update_trades goes on to the scoring
\* pass with the other transactions of the batch in pending.
C23_UndecodableDropped ==
    [][pc = "update" => pc' \in {"update", "simulate"}]_vars

\* the trade simulate_trades is about to look at has not been simulated since
\* the last block and fails revalidation
InvalidHead ==
    /\ pc = "simulate"
    /\ todo # <<>>
    /\ ~trades[Head(todo)].simulated
    /\ check_trade_validity(trades[Head(todo)], protocols, now).status = "err"

\* C25: a pending swap that fails revalidation is skipped for this tick only:
\* the step on it leaves its simulated mark false, the pending map, every
\* reserve and the opportunities as they are, and the pass goes on; every pass
\* starts with all entries of the pending map to visit, so the swap is
\* revalidated in the next one.
C25_InvalidSwapSkippedThisTick ==
    [][/\ InvalidHead =>
             /\ pc' = "simulate"
             /\ todo' \in {todo, Tail(todo)}
             /\ UNCHANGED <<protocols, trades, possible_arbitrages, changed>>
       /\ (pc = "update" /\ pc' = "simulate") =>
             {todo'[i] : i \in 1..Len(todo')} = DOMAIN trades']_vars

\* a pass is over that rejected a swap for its bound, its deadline not passed,
\* and scored another swap
C25_Witness ==
    /\ pc = "simulate"
    /\ todo = <<>>
    /\ Len(possible_arbitrages) = 10
    /\ protocols = pre_pass
    /\ \E f \in DOMAIN trades :
          /\ ~trades[f].simulated
          /\ trades[f].params.deadline >= now
          /\ check_trade_validity(trades[f], protocols, now).status = "err"

-----------------------------------------------------------------------------
(* Properties of the gas estimate, checked under SpecGas *)

GasPrice == IF ggas.kind = "Legacy" THEN ggas.price ELSE ggas.max_fee
\* gas units charged per unit of price: 500000 + (attempts - 1) * (500000 / 8)
GasUnits == GAS_ESTIMATE + (gattempts - 1) * (GAS_ESTIMATE \div 8)

\* C17: the gas cost of an opportunity is 500000 * p + (attempts - 1) *
\* (500000 / 8) * p, p being the price of a Legacy profile or max_fee of an
\* EIP-1559 profile whatever its max_priority_fee, for attempts in 1..8, and
\* the maximum of the type when that value exceeds it.
C17_GasCostFormula ==
    gcost # Unset =>
        gcost = Ok(IF GasPrice > U256Max \div GasUnits THEN U256Max
                   ELSE GasPrice * GasUnits)

\* an EIP-1559 profile with a priority fee, several attempts, no saturation
C17_Witness ==
    /\ gcost # Unset
    /\ ggas.kind = "London"
    /\ ggas.max_priority_fee > 0
    /\ ggas.max_fee = 2
    /\ gattempts = 8
    /\ gcost.val = 2 * GAS_ESTIMATE + 7 * 2 * (GAS_ESTIMATE \div 8)

\* the value exceeds the type and the cost is the maximum
C17_WitnessSaturated ==
    /\ gcost # Unset
    /\ ggas.kind = "Legacy"
    /\ ggas.price <= U256Max \div GAS_ESTIMATE
    /\ gattempts > 1
    /\ gcost.val = U256Max

-----------------------------------------------------------------------------
(* Properties of the simulation, checked under SpecSimulate *)

\* C20 as stated: for every swap that passed check_trade_validity, simulate
\* debits no reserve below zero and credits none above the u128 maximum, and
\* does not panic.
C20_SimulateStaysInRange ==
    vsim.status = "simulated" => ~vsim.wrapped /\ ~vsim.panic

\* a valid swap whose path goes R -> A twice: each debit of A is below the
\* reserve the amounts were computed from, the two together are above it
C20_DoubleDebitUnderflow ==
    /\ vsim.status = "simulated"
    /\ vtrade.params.path = <<TRADED_TOKEN, TokenA, TokenB, TRADED_TOKEN, TokenA>>
    /\ vtrade.params.kind = "ExactInput"
    /\ LET pair == pre_sim[Factory1].pairs[<<TRADED_TOKEN, TokenA>>] IN
          /\ vsim.amounts[2] < pair.reserve1
          /\ vsim.amounts[5] < pair.reserve1
          /\ vsim.amounts[2] + vsim.amounts[5] > pair.reserve1
          /\ pair.reserve0 + vsim.amounts[1] + vsim.amounts[4] <= U128Max
    /\ vsim.wrapped

\* a valid one-hop swap whose amount_in, added to the reserve, leaves u128
C20_CreditOverflow ==
    /\ vsim.status = "simulated"
    /\ vtrade.params.path = <<TRADED_TOKEN, TokenA>>
    /\ LET pair == pre_sim[Factory1].pairs[<<TRADED_TOKEN, TokenA>>] IN
          /\ vsim.amounts[2] < pair.reserve1
          /\ pair.reserve0 + vsim.amounts[1] > U128Max
    /\ vsim.wrapped

\* the amounts of the swap along its path, as revalidation computes them
SwapAmounts ==
    IF vtrade.params.kind = "ExactInput"
    THEN get_amounts_out(vtrade.path, vtrade.params.amount_in, protocols)
    ELSE get_amounts_in(vtrade.path, vtrade.params.amount_out, protocols)

\* C24: revalidation accepts an ExactIn swap only if the last amount out is
\* strictly greater than min_out and an ExactOut swap only if the first amount
\* in is strictly less than max_in; a swap that meets its bound exactly is
\* rejected, and so is one whose amounts cannot be computed.
C24_StrictBounds ==
    vsim.status \in {"ok", "err"} =>
        vsim.status = "ok" <=>
            /\ SwapAmounts.status = "ok"
            /\ vtrade.params.kind = "ExactInput" =>
                  Last(SwapAmounts.amounts) > vtrade.params.amount_out_min
            /\ vtrade.params.kind = "ExactOutput" =>
                  Head(SwapAmounts.amounts) < vtrade.params.amount_in_max

\* an ExactIn swap whose output equals min_out has been rejected
C24_Witness ==
    /\ vsim.status = "err"
    /\ vtrade.params.kind = "ExactInput"
    /\ SwapAmounts.status = "ok"
    /\ Last(SwapAmounts.amounts) = vtrade.params.amount_out_min
    /\ vtrade.params.amount_out_min > 0

\* an ExactOut swap whose input equals max_in has been rejected
C24_WitnessExactOut ==
    /\ vsim.status = "err"
    /\ vtrade.params.kind = "ExactOutput"
    /\ SwapAmounts.status = "ok"
    /\ Head(SwapAmounts.amounts) = vtrade.params.amount_in_max

-----------------------------------------------------------------------------
(* Properties of ensure_gas_reserves, checked under SpecReserves *)

\* C33 as stated: the routine pays each backup account found below
\* BALANCE_RESERVE exactly BALANCE_RESERVE, and what it withdraws from the
\* executor contract is the total of those payments, for any number of low
\* accounts.
C33_PaysExactlyReserve ==
    gr_pc \in {"pay", "done"} =>
        /\ \A account \in low_accounts :
              payments[account].status = "paid" =>
                  payments[account].amount = BALANCE_RESERVE
        /\ low_accounts # {} =>
              top_up_amount = BALANCE_RESERVE * Cardinality(low_accounts)

\* two backup accounts are low and the main account is not: the first pay
\* sends the whole withdrawal, twice BALANCE_RESERVE, to one account
C33_LowAccountPaidTotal ==
    /\ gr_pc = "done"
    /\ Cardinality(low_accounts) = 2
    /\ top_up_amount = 2 * BALANCE_RESERVE
    /\ \E account \in low_accounts :
          /\ payments[account].status = "paid"
          /\ payments[account].amount = 2 * BALANCE_RESERVE

\* three low accounts and a main account that held BALANCE_RESERVE: the
\* withdrawal covers one pay, the other two fail and those accounts stay low
C33_LowAccountLeftLow ==
    /\ gr_pc = "done"
    /\ Cardinality(low_accounts) = 3
    /\ \E account \in low_accounts : payments[account].status = "paid"
    /\ \E account \in low_accounts :
          /\ payments[account].status = "failed"
          /\ other_balances[account] < BALANCE_RESERVE

\* one low account and a main account above the reserve: the only case in
\* which the payment is BALANCE_RESERVE
C33_SingleLowAccountPaidReserve ==
    /\ gr_pc = "done"
    /\ Cardinality(low_accounts) = 1
    /\ \A account \in low_accounts :
          payments[account] = [status |-> "paid", amount |-> BALANCE_RESERVE]

====
